---- MODULE Spec2Model ----
(***************************************************************************)
(* Subtitle Studio: the subtitle editor's SRT export pipeline              *)
(* (src/components/SubtitleEditor.tsx, handleDownload) and the editor      *)
(* state it reads.                                                         *)
(*                                                                         *)
(* Time.  The code computes in seconds (IEEE doubles).  The model computes *)
(* in exact integer ticks, one tick being 1/100 of a frame at 30 fps       *)
(* (1/3000 s), so that a frame (100 ticks), the 50 ms fallback (150 ticks),*)
(* a step of the minimum-duration slider (300 ticks) and a millisecond     *)
(* (3 ticks) are all whole numbers.  Rounding of doubles is not modelled.  *)
(*                                                                         *)
(* Text.  A word is a sequence of one-character strings.                   *)
(***************************************************************************)
EXTENDS Integers, Sequences, FiniteSets, TLC

(***************************************************************************)
(* Program constants                                                       *)
(***************************************************************************)
FrameRate == 30
TicksPerSecond == FrameRate * 100
FallbackTicks == (5 * TicksPerSecond) \div 100
DefaultMaxChars == 7
DefaultMinDuration == (12 * TicksPerSecond) \div 10
DefaultGapFrames == 0

(***************************************************************************)
(* Bounds of the model                                                     *)
(***************************************************************************)
MaxWords == 3
MaxResponseWords == 2

Sec10(n) == (n * TicksPerSecond) \div 10

\* Words the transcription may return.
Hi == <<"H", "i">>
there == <<"t", "h", "e", "r", "e">>
friend == <<"f", "r", "i", "e", "n", "d">>
blank == <<" ", "\n">>
Words == {Hi, there, friend, blank}

\* The 34-character word of the specification's scenario 4.
longWord ==
  <<"s", "u", "p", "e", "r", "c", "a", "l", "i", "f", "r", "a", "g", "i", "l",
    "i", "s", "t", "i", "c", "e", "x", "p", "i", "a", "l", "i", "d", "o", "c",
    "i", "o", "u", "s">>

\* (startTime, endTime) pairs the transcription may return, in ticks:
\* 0-0.4 s, 0.5-0.9 s, 2.0-2.5 s, and an empty span at 0.4 s.  The API result
\* is not validated beyond the presence of the three keys, so the spans of a
\* list may come in any order, repeat and overlap.
Spans ==
  { <<Sec10(0), Sec10(4)>>, <<Sec10(5), Sec10(9)>>, <<Sec10(20), Sec10(25)>>,
    <<Sec10(4), Sec10(4)>> }

\* Values the three sliders and the radio group of SRTSettings can be set to.
MaxCharsValues == {5, DefaultMaxChars, 10, 20}
MinDurationValues == {Sec10(5), DefaultMinDuration}
GapFramesValues == {DefaultGapFrames, 30}
LinesValues == {"single", "double"}

Token(w, span) == [word |-> w, startTime |-> span[1], endTime |-> span[2]]
Tokens == {Token(w, span) : w \in Words, span \in Spans}

\* SubtitleWord[] values of at most MaxWords entries.
RECURSIVE SeqsUpTo(_, _)
SeqsUpTo(S, n) ==
  IF n = 0 THEN {<<>>}
  ELSE LET shorter == SeqsUpTo(S, n - 1)
       IN shorter \cup {Append(q, x) : q \in {r \in shorter : Len(r) = n - 1}, x \in S}
TokenSeqs == SeqsUpTo(Tokens, MaxWords)

(***************************************************************************)
(* Editor state (useState hooks of SubtitleEditor) and the file produced   *)
(* by the download that has just run.                                      *)
(***************************************************************************)
VARIABLES
  subtitles,       \* SubtitleWord[] shown in the editor
  maxChars,        \* SRT setting: characters per line
  minDuration,     \* SRT setting: minimum block duration, in ticks
  gapFrames,       \* SRT setting: gap between blocks, in frames
  lines,           \* SRT setting: "single" or "double"
  exportFormat,    \* format of the download that has just run, or "none"
  srtLines,        \* handleDownload: lines after step 1
  composedBlocks,  \* handleDownload: blocks after step 2, before step 3
  finalSrtBlocks,  \* handleDownload: blocks after step 3
  content,         \* handleDownload: content of the file that has just been made
  previousSrt,     \* the SRT file of an earlier download from the present
                   \* subtitles and settings, kept when a download in another
                   \* format has replaced it as content; otherwise NoContent
  prTranscriptObject, \* handleDownload: the object serialized for 'prtranscript'
  tsSeconds,       \* formatTimestamp: argument seconds
  tsFormat,        \* formatTimestamp: argument format
  tsResult,        \* formatTimestamp: value returned, or NotCalled
  appState,        \* App: 'idle', 'loading', 'editing' or 'error'
  audioFile,       \* App: the selected File, by its MIME type, or NoFile
  error,           \* App: the error message shown, or NoError
  apiKey,          \* whether process.env.API_KEY is set
  transcription,   \* the latest transcribeAudio call: its promise
  isTranslating,   \* editor: a Romanize call is running
  hasBeenRomanized,      \* editor: a Romanize call has succeeded
  transliterationError,  \* editor: the Romanize error shown, or NoError
  transliteration, \* the latest transliterateText call: its promise
  findTerm,        \* editor: find term
  replaceTerm,     \* editor: replacement text
  findCaseSensitive,     \* editor: case setting of find
  lastReplacedIndex,     \* editor: 0-based index of the last Replace, or -1
  replaceResult,   \* value returned by the latest onReplace, or NotCalled
  replaceCount,    \* successful Replaces since lastReplacedIndex was reset
  srtFile,         \* parseSRT: text of the file read
  parsedWords      \* parseSRT: the promise it returned

settingsVars == <<maxChars, minDuration, gapFrames, lines>>
exportVars == <<exportFormat, srtLines, composedBlocks, finalSrtBlocks, prTranscriptObject>>
tsVars == <<tsSeconds, tsFormat, tsResult>>
appVars == <<appState, audioFile, error, apiKey, transcription>>
romanizeVars == <<isTranslating, hasBeenRomanized, transliterationError, transliteration>>
findVars ==
  <<findTerm, replaceTerm, findCaseSensitive, lastReplacedIndex, replaceResult, replaceCount>>
parseVars == <<srtFile, parsedWords>>
vars ==
  <<subtitles, settingsVars, exportVars, content, previousSrt, tsVars,
    appVars, romanizeVars, findVars, parseVars>>

(***************************************************************************)
(* Text helpers: String.prototype.replace(/[\r\n]+/g, ' ') and trim()      *)
(***************************************************************************)
IsNewline(c) == c \in {"\n", "\r"}
IsWhitespace(c) == c \in {" ", "\t", "\n", "\r"}

RECURSIVE DropWhile(_, _)
DropWhile(w, newlineOnly) ==
  IF w = <<>> THEN <<>>
  ELSE IF (IF newlineOnly THEN IsNewline(Head(w)) ELSE IsWhitespace(Head(w)))
       THEN DropWhile(Tail(w), newlineOnly)
       ELSE w

\* Every maximal run of CR/LF characters becomes one space.
RECURSIVE ReplaceNewlines(_)
ReplaceNewlines(w) ==
  IF w = <<>> THEN <<>>
  ELSE IF IsNewline(Head(w))
       THEN <<" ">> \o ReplaceNewlines(DropWhile(Tail(w), TRUE))
       ELSE <<Head(w)>> \o ReplaceNewlines(Tail(w))

Reverse(w) == [i \in 1..Len(w) |-> w[Len(w) + 1 - i]]
Trim(w) == Reverse(DropWhile(Reverse(DropWhile(w, FALSE)), FALSE))

\* Variant of SanitizeWord that trims but keeps inner CR/LF characters.
SanitizeWordTrimOnly(w) == Trim(w)

\* const word = wordData.word.replace(/[\r\n]+/g, ' ').trim();
SanitizeWord(w) == Trim(ReplaceNewlines(w))

(***************************************************************************)
(* handleDownload('srt'), step 1: group words into lines based on maxChars *)
(***************************************************************************)
FirstLine(subs) == [text |-> <<>>, startTime |-> subs[1].startTime, endTime |-> 0]

\* Variant of WordStep that compares the length of the word alone, not of the
\* candidate line, with maxChars.
WordStepWordLength(st, subs, i, mc) ==
  LET wordData == subs[i]
      word == SanitizeWord(wordData.word)
      currentLine == st.currentLine
      newText == IF currentLine.text = <<>> THEN word
                 ELSE currentLine.text \o <<" ">> \o word
  IN IF word = <<>> THEN st
     ELSE IF Len(word) > mc /\ currentLine.text # <<>>
          THEN [srtLines |-> Append(st.srtLines,
                               [currentLine EXCEPT !.endTime = subs[i - 1].endTime]),
                currentLine |-> [text |-> word,
                                 startTime |-> wordData.startTime,
                                 endTime |-> wordData.endTime]]
          ELSE [srtLines |-> st.srtLines,
                currentLine |-> [currentLine EXCEPT !.text = newText,
                                                    !.endTime = wordData.endTime]]

\* Variant of WordStep that loses the word that does not fit the current line.
WordStepDropsOverflow(st, subs, i, mc) ==
  LET wordData == subs[i]
      word == SanitizeWord(wordData.word)
      currentLine == st.currentLine
      newText == IF currentLine.text = <<>> THEN word
                 ELSE currentLine.text \o <<" ">> \o word
  IN IF word = <<>> THEN st
     ELSE IF Len(newText) > mc /\ currentLine.text # <<>>
          THEN [srtLines |-> Append(st.srtLines,
                               [currentLine EXCEPT !.endTime = subs[i - 1].endTime]),
                currentLine |-> [text |-> <<>>,
                                 startTime |-> wordData.startTime,
                                 endTime |-> wordData.endTime]]
          ELSE [srtLines |-> st.srtLines,
                currentLine |-> [currentLine EXCEPT !.text = newText,
                                                    !.endTime = wordData.endTime]]

\* One iteration of the word loop, for the 1-based index i.  st.currentLine
\* is the line being filled, st.srtLines the lines pushed so far.
WordStep(st, subs, i, mc) ==
  LET wordData == subs[i]
      word == SanitizeWord(wordData.word)
      currentLine == st.currentLine
      newText == IF currentLine.text = <<>> THEN word
                 ELSE currentLine.text \o <<" ">> \o word
  IN IF word = <<>> THEN st
     ELSE IF Len(newText) > mc /\ currentLine.text # <<>>
          THEN [srtLines |-> Append(st.srtLines,
                               [currentLine EXCEPT !.endTime = subs[i - 1].endTime]),
                currentLine |-> [text |-> word,
                                 startTime |-> wordData.startTime,
                                 endTime |-> wordData.endTime]]
          ELSE [srtLines |-> st.srtLines,
                currentLine |-> [currentLine EXCEPT !.text = newText,
                                                    !.endTime = wordData.endTime]]

RECURSIVE WordLoop(_, _, _, _)
WordLoop(st, subs, i, mc) ==
  IF i > Len(subs) THEN st
  ELSE WordLoop(WordStep(st, subs, i, mc), subs, i + 1, mc)

\* Variant of GroupWords that pushes the last line without testing its text.
GroupWordsAlwaysPush(subs, mc) ==
  IF Len(subs) > 0
  THEN LET st == WordLoop([srtLines |-> <<>>, currentLine |-> FirstLine(subs)],
                          subs, 1, mc)
       IN Append(st.srtLines, st.currentLine)
  ELSE <<>>

GroupWords(subs, mc) ==
  IF Len(subs) > 0
  THEN LET st == WordLoop([srtLines |-> <<>>, currentLine |-> FirstLine(subs)],
                          subs, 1, mc)
       IN IF st.currentLine.text # <<>>
          THEN Append(st.srtLines, st.currentLine)
          ELSE st.srtLines
  ELSE <<>>

(***************************************************************************)
(* Step 2: combine lines if 'double' is selected                           *)
(***************************************************************************)
\* Variant of PairLines that leaves out an unpaired trailing line.
RECURSIVE PairLinesDropOdd(_, _)
PairLinesDropOdd(ls, i) ==
  IF i + 1 > Len(ls) THEN <<>>
  ELSE <<[text |-> ls[i].text \o <<"\n">> \o ls[i + 1].text,
          startTime |-> ls[i].startTime,
          endTime |-> ls[i + 1].endTime]>> \o PairLinesDropOdd(ls, i + 2)

RECURSIVE PairLines(_, _)
PairLines(ls, i) ==
  IF i > Len(ls) THEN <<>>
  ELSE IF i + 1 <= Len(ls)
       THEN <<[text |-> ls[i].text \o <<"\n">> \o ls[i + 1].text,
               startTime |-> ls[i].startTime,
               endTime |-> ls[i + 1].endTime]>> \o PairLines(ls, i + 2)
       ELSE <<ls[i]>> \o PairLines(ls, i + 2)

CombineLines(ls, mode) == IF mode = "single" THEN ls ELSE PairLines(ls, 1)

(***************************************************************************)
(* Step 3: post-process to enforce min duration and gaps                   *)
(***************************************************************************)
\* const gapInSeconds = gapFrames / 30.0;
GapInTicks(frames) == (frames * TicksPerSecond) \div FrameRate

\* Variant of EnforceMinDuration with the comparison reversed.
EnforceMinDurationReversed(block, md) ==
  IF block.endTime - block.startTime > md
  THEN [block EXCEPT !.endTime = block.startTime + md]
  ELSE block

\* if (block.endTime - block.startTime < minDuration) ...
EnforceMinDuration(block, md) ==
  IF block.endTime - block.startTime < md
  THEN [block EXCEPT !.endTime = block.startTime + md]
  ELSE block

\* Variant of EnforceGap that clamps to the next block's start, dropping the gap.
EnforceGapIgnoringGap(block, nextBlock, gap) ==
  IF block.endTime > nextBlock.startTime
  THEN [block EXCEPT !.endTime = nextBlock.startTime]
  ELSE block

\* if (block.endTime > requiredEndTime) block.endTime = requiredEndTime;
EnforceGap(block, nextBlock, gap) ==
  LET requiredEndTime == nextBlock.startTime - gap
  IN IF block.endTime > requiredEndTime
     THEN [block EXCEPT !.endTime = requiredEndTime]
     ELSE block

\* Variant of EnforceFallback that restores the duration by moving the start.
EnforceFallbackMovingStart(block) ==
  IF block.endTime <= block.startTime
  THEN [block EXCEPT !.startTime = block.endTime - FallbackTicks]
  ELSE block

\* Variant of EnforceFallback that tests < instead of <=.
EnforceFallbackStrict(block) ==
  IF block.endTime < block.startTime
  THEN [block EXCEPT !.endTime = block.startTime + FallbackTicks]
  ELSE block

\* if (block.endTime <= block.startTime) block.endTime = block.startTime + 0.05;
EnforceFallback(block) ==
  IF block.endTime <= block.startTime
  THEN [block EXCEPT !.endTime = block.startTime + FallbackTicks]
  ELSE block

\* Variant of PostProcessBlock that never clamps to the gap.
PostProcessBlockNoClamp(blocks, i, md, gap) ==
  LET extended == EnforceMinDuration(blocks[i], md)
  IN IF i + 1 <= Len(blocks)
     THEN EnforceFallback(extended)
     ELSE extended

\* Variant of PostProcessBlock that clamps to the gap before it extends to the
\* minimum duration.
PostProcessBlockGapFirst(blocks, i, md, gap) ==
  IF i + 1 <= Len(blocks)
  THEN EnforceMinDuration(EnforceFallback(EnforceGap(blocks[i], blocks[i + 1], gap)), md)
  ELSE EnforceMinDuration(blocks[i], md)

\* The body of the forEach callback for the 1-based index i.
PostProcessBlock(blocks, i, md, gap) ==
  LET extended == EnforceMinDuration(blocks[i], md)
  IN IF i + 1 <= Len(blocks)
     THEN EnforceFallback(EnforceGap(extended, blocks[i + 1], gap))
     ELSE extended

\* finalSrtBlocks.forEach(...): the blocks are updated in place, in order.
RECURSIVE PostProcessFrom(_, _, _, _)
PostProcessFrom(blocks, i, md, gap) ==
  IF i > Len(blocks) THEN blocks
  ELSE PostProcessFrom([blocks EXCEPT ![i] = PostProcessBlock(blocks, i, md, gap)],
                       i + 1, md, gap)

PostProcess(blocks, md, gap) == PostProcessFrom(blocks, 1, md, gap)

(***************************************************************************)
(* formatTimestamp.  A JavaScript number is a record: NaN, +Infinity or a   *)
(* finite number of ticks.  A string is a sequence of characters.           *)
(***************************************************************************)
Finite(ticks) == [nan |-> FALSE, inf |-> FALSE, ticks |-> ticks]
NaN == [nan |-> TRUE, inf |-> FALSE, ticks |-> 0]
PosInfinity == [nan |-> FALSE, inf |-> TRUE, ticks |-> 0]

Digits == <<"0", "1", "2", "3", "4", "5", "6", "7", "8", "9">>
Pad2(n) == <<Digits[((n \div 10) % 10) + 1], Digits[(n % 10) + 1]>>
Pad3(n) == <<Digits[((n \div 100) % 10) + 1]>> \o Pad2(n)

\* Number.prototype.toString of a non-negative integer.
RECURSIVE Decimal(_)
Decimal(n) == IF n < 10 THEN <<Digits[n + 1]>> ELSE Decimal(n \div 10) \o <<Digits[(n % 10) + 1]>>

\* The outcome of a call that throws RangeError.
RangeError == <<"RangeError">>

\* const date = new Date(0); date.setSeconds(seconds);
\* setSeconds keeps the millisecond field of the date (0) and takes the
\* integer part of its argument (MakeTime applies ToIntegerOrInfinity), so the
\* time value is a whole number of seconds, in milliseconds.  Floor and
\* truncation agree on the arguments >= 0 that formatTimestamp passes; a
\* negative argument is modelled by floor.
DateSetSeconds(ticks) == (ticks \div TicksPerSecond) * 1000

\* date.toISOString().substr(11, 12): "HH:MM:SS.mmm" of a time value in ms.
IsoTimeString(ms) ==
  Pad2((ms \div 3600000) % 24) \o <<":">> \o Pad2((ms \div 60000) % 60) \o <<":">>
    \o Pad2((ms \div 1000) % 60) \o <<".">> \o Pad3(ms % 1000)

\* String.prototype.replace(pattern, by) with a one-character string pattern:
\* the first occurrence only.
RECURSIVE ReplaceFirst(_, _, _)
ReplaceFirst(str, c, by) ==
  IF str = <<>> THEN <<>>
  ELSE IF Head(str) = c THEN <<by>> \o Tail(str)
       ELSE <<Head(str)>> \o ReplaceFirst(Tail(str), c, by)

\* Variant of formatTimestamp without the clamp of negative and NaN arguments
\* (a NaN argument gives an invalid date, whose toISOString throws).
formatTimestampNoClamp(seconds, format) ==
  IF seconds.inf \/ seconds.nan THEN RangeError
  ELSE LET timeString == IsoTimeString(DateSetSeconds(seconds.ticks))
       IN IF format = "srt" THEN ReplaceFirst(timeString, ".", ",")
          ELSE SubSeq(timeString, 1, 8)

formatTimestamp(seconds, format) ==
  LET clamped == IF seconds.nan \/ (~seconds.inf /\ seconds.ticks < 0)
                 THEN Finite(0) ELSE seconds
  IN IF clamped.inf THEN RangeError
     ELSE LET timeString == IsoTimeString(DateSetSeconds(clamped.ticks))
          IN IF format = "srt" THEN ReplaceFirst(timeString, ".", ",")
             ELSE SubSeq(timeString, 1, 8)

(***************************************************************************)
(* Step 4: format into SRT string                                          *)
(***************************************************************************)
\* Array.prototype.join
RECURSIVE Join(_, _)
Join(strs, sep) ==
  IF strs = <<>> THEN <<>>
  ELSE IF Len(strs) = 1 THEN strs[1]
       ELSE strs[1] \o sep \o Join(Tail(strs), sep)

Arrow == <<" ", "-", "-", ">", " ">>
\* Variant of FormatSrtBlock that numbers the blocks from 0.
FormatSrtBlockZeroBased(block, index) ==
  Decimal(index) \o <<"\n">>
    \o formatTimestamp(Finite(block.startTime), "srt") \o Arrow
    \o formatTimestamp(Finite(block.endTime), "srt") \o <<"\n">> \o block.text

\* The map callback, for the 0-based index of the code.
FormatSrtBlock(block, index) ==
  Decimal(index + 1) \o <<"\n">>
    \o formatTimestamp(Finite(block.startTime), "srt") \o Arrow
    \o formatTimestamp(Finite(block.endTime), "srt") \o <<"\n">>
    \o block.text

FormatSrt(blocks) ==
  Join([k \in 1..Len(blocks) |-> FormatSrtBlock(blocks[k], k - 1)], <<"\n", "\n">>)

(***************************************************************************)
(* The other formats of handleDownload: Number.prototype.toFixed(3),       *)
(* Number's toString and JSON.stringify(value, null, 2).  A JSON value is  *)
(* a record [t, v]: a string, a number (in ticks), an array of values or   *)
(* an object, whose v is the sequence of its <<key, value>> pairs in       *)
(* insertion order.  Times are whole milliseconds.                         *)
(***************************************************************************)
TicksPerMilli == TicksPerSecond \div 1000

\* Math.round of a time in milliseconds.
RoundMillis(ticks) == ((2 * ticks) + TicksPerMilli) \div (2 * TicksPerMilli)

\* s.startTime.toFixed(3), for a non-negative time.
ToFixed3(ticks) ==
  LET ms == RoundMillis(ticks)
  IN Decimal(ms \div 1000) \o <<".">> \o Pad3(ms % 1000)

RECURSIVE DropTrailingZeros(_)
DropTrailingZeros(ds) ==
  IF ds # <<>> /\ ds[Len(ds)] = "0" THEN DropTrailingZeros(SubSeq(ds, 1, Len(ds) - 1))
  ELSE ds

\* Number::toString, for a non-negative time: no fraction for an integer,
\* otherwise the shortest fraction.
NumberToString(ticks) ==
  LET ms == RoundMillis(ticks)
      fraction == DropTrailingZeros(Pad3(ms % 1000))
  IN Decimal(ms \div 1000) \o (IF fraction = <<>> THEN <<>> ELSE <<".">> \o fraction)

\* s.word.replace(/"/g, '""')
RECURSIVE DoubleQuotes(_)
DoubleQuotes(w) ==
  IF w = <<>> THEN <<>>
  ELSE (IF Head(w) = "\"" THEN <<"\"", "\"">> ELSE <<Head(w)>>) \o DoubleQuotes(Tail(w))

\* JSON.stringify of a string: QuoteJSONString.
RECURSIVE JsonEscape(_)
JsonEscape(w) ==
  IF w = <<>> THEN <<>>
  ELSE (CASE Head(w) = "\"" -> <<"\\", "\"">>
          [] Head(w) = "\\" -> <<"\\", "\\">>
          [] Head(w) = "\n" -> <<"\\", "n">>
          [] Head(w) = "\r" -> <<"\\", "r">>
          [] Head(w) = "\t" -> <<"\\", "t">>
          [] OTHER -> <<Head(w)>>) \o JsonEscape(Tail(w))

JsonQuote(w) == <<"\"">> \o JsonEscape(w) \o <<"\"">>

JsonString(w) == [t |-> "string", v |-> w]
JsonNumber(ticks) == [t |-> "number", v |-> ticks]
JsonArray(values) == [t |-> "array", v |-> values]
JsonObject(pairs) == [t |-> "object", v |-> pairs]

Indent(depth) == [k \in 1..(2 * depth) |-> " "]

\* JSON.stringify(value, null, 2), for a value nested at the given depth.
RECURSIVE JsonStringify(_, _)
JsonStringify(value, depth) ==
  CASE value.t = "string" -> JsonQuote(value.v)
    [] value.t = "number" -> NumberToString(value.v)
    [] value.t = "array" ->
         IF Len(value.v) = 0 THEN <<"[", "]">>
         ELSE <<"[", "\n">>
                \o Join([k \in 1..Len(value.v) |->
                           Indent(depth + 1) \o JsonStringify(value.v[k], depth + 1)],
                        <<",", "\n">>)
                \o <<"\n">> \o Indent(depth) \o <<"]">>
    [] value.t = "object" ->
         IF Len(value.v) = 0 THEN <<"{", "}">>
         ELSE <<"{", "\n">>
                \o Join([k \in 1..Len(value.v) |->
                           Indent(depth + 1) \o JsonQuote(value.v[k][1]) \o <<":", " ">>
                             \o JsonStringify(value.v[k][2], depth + 1)],
                        <<",", "\n">>)
                \o <<"\n">> \o Indent(depth) \o <<"}">>

\* A SubtitleWord as JSON.stringify sees it.
SubtitleWordValue(s) ==
  JsonObject(<< <<<<"w", "o", "r", "d">>, JsonString(s.word)>>,
                <<<<"s", "t", "a", "r", "t", "T", "i", "m", "e">>, JsonNumber(s.startTime)>>,
                <<<<"e", "n", "d", "T", "i", "m", "e">>, JsonNumber(s.endTime)>> >>)

StartTimeKey == <<"s", "t", "a", "r", "t", "-", "t", "i", "m", "e">>
EndTimeKey == <<"e", "n", "d", "-", "t", "i", "m", "e">>
WordKey == <<"w", "o", "r", "d">>
VersionKey == <<"v", "e", "r", "s", "i", "o", "n">>
TranscriptKey ==
  <<"w", "o", "r", "d", "-", "l", "e", "v", "e", "l", "-",
    "t", "r", "a", "n", "s", "c", "r", "i", "p", "t">>

\* Variant of TranscriptEntry whose end-time carries the start time.
TranscriptEntryStartTwice(s) ==
  JsonObject(<< <<StartTimeKey, JsonNumber(s.startTime)>>,
                <<EndTimeKey, JsonNumber(s.startTime)>>,
                <<WordKey, JsonString(s.word)>> >>)

\* s => ({'start-time': s.startTime, 'end-time': s.endTime, word: s.word})
TranscriptEntry(s) ==
  JsonObject(<< <<StartTimeKey, JsonNumber(s.startTime)>>,
                <<EndTimeKey, JsonNumber(s.endTime)>>,
                <<WordKey, JsonString(s.word)>> >>)

PrTranscriptObject(subs) ==
  JsonObject(<< <<VersionKey, JsonString(<<"1", ".", "0">>)>>,
                <<TranscriptKey,
                  JsonArray([k \in 1..Len(subs) |-> TranscriptEntry(subs[k])])>> >>)

CsvHeader ==
  <<"w", "o", "r", "d", ",", "s", "t", "a", "r", "t", "T", "i", "m", "e", ",",
    "e", "n", "d", "T", "i", "m", "e", "\n">>

CsvRow(s) ==
  <<"\"">> \o DoubleQuotes(s.word) \o <<"\"", ",">>
    \o ToFixed3(s.startTime) \o <<",">> \o ToFixed3(s.endTime)

(***************************************************************************)
(* Initial state: the editor is mounted with the transcription result and  *)
(* the default SRT settings; nothing has been downloaded.                  *)
(***************************************************************************)
NoContent == <<"none">>
NotCalled == <<"not called">>
NoObject == [t |-> "none", v |-> <<>>]

NoExport ==
  /\ exportFormat' = "none"
  /\ srtLines' = <<>>
  /\ composedBlocks' = <<>>
  /\ finalSrtBlocks' = <<>>
  /\ prTranscriptObject' = NoObject
  /\ content' = NoContent
  /\ previousSrt' = NoContent

NoFile == "none"
NoError == <<>>
NoCall == [status |-> "none", value |-> <<>>]
Pending == [status |-> "pending", value |-> <<>>]
Resolved(result) == [status |-> "resolved", value |-> result]
Rejected(message) == [status |-> "rejected", value |-> message]

\* The App shows the editor: a transcription of an MP3 file has resolved with
\* the editor's initial list.
AppEditing ==
  /\ appState = "editing"
  /\ audioFile = "audio/mpeg"
  /\ error = NoError
  /\ apiKey = TRUE
  /\ transcription = Resolved(subtitles)

\* Romanize has not been used.
RomanizeIdle ==
  /\ isTranslating = FALSE
  /\ hasBeenRomanized = FALSE
  /\ transliterationError = NoError
  /\ transliteration = NoCall

\* Find and Replace has not been used.
FindIdle ==
  /\ findTerm = <<>>
  /\ replaceTerm = <<>>
  /\ findCaseSensitive = FALSE
  /\ lastReplacedIndex = -1
  /\ replaceResult = NotCalled
  /\ replaceCount = 0

\* No file is being imported.
ParseIdle ==
  /\ srtFile = <<>>
  /\ parsedWords = NoCall

\* No call of formatTimestamp is being observed.
TsIdle ==
  /\ tsSeconds = Finite(0)
  /\ tsFormat = "srt"
  /\ tsResult = NotCalled

Init ==
  /\ subtitles \in TokenSeqs
  /\ maxChars = DefaultMaxChars
  /\ minDuration = DefaultMinDuration
  /\ gapFrames = DefaultGapFrames
  /\ lines = "single"
  /\ exportFormat = "none"
  /\ srtLines = <<>>
  /\ composedBlocks = <<>>
  /\ finalSrtBlocks = <<>>
  /\ prTranscriptObject = NoObject
  /\ content = NoContent
  /\ previousSrt = NoContent
  /\ TsIdle
  /\ AppEditing
  /\ RomanizeIdle
  /\ FindIdle
  /\ ParseIdle

(***************************************************************************)
(* SRTSettings: the sliders and the radio group                            *)
(***************************************************************************)
SetMaxChars ==
  \E v \in MaxCharsValues \ {maxChars} :
    /\ maxChars' = v
    /\ NoExport
    /\ UNCHANGED <<subtitles, minDuration, gapFrames, lines, tsVars, appVars, romanizeVars, findVars, parseVars>>

SetMinDuration ==
  \E v \in MinDurationValues \ {minDuration} :
    /\ minDuration' = v
    /\ NoExport
    /\ UNCHANGED <<subtitles, maxChars, gapFrames, lines, tsVars, appVars, romanizeVars, findVars, parseVars>>

SetGapFrames ==
  \E v \in GapFramesValues \ {gapFrames} :
    /\ gapFrames' = v
    /\ NoExport
    /\ UNCHANGED <<subtitles, maxChars, minDuration, lines, tsVars, appVars, romanizeVars, findVars, parseVars>>

SetLines ==
  \E v \in LinesValues \ {lines} :
    /\ lines' = v
    /\ NoExport
    /\ UNCHANGED <<subtitles, maxChars, minDuration, gapFrames, tsVars, appVars, romanizeVars, findVars, parseVars>>

(***************************************************************************)
(* handleDownload('srt')                                                   *)
(***************************************************************************)
\* Variant of HandleDownloadSrt that writes the sanitized words back into
\* the editor's list.
HandleDownloadSrtSanitizingInPlace ==
  LET grouped == GroupWords(subtitles, maxChars)
      combined == CombineLines(grouped, lines)
  IN /\ exportFormat' = "srt"
     /\ srtLines' = grouped
     /\ composedBlocks' = combined
     /\ finalSrtBlocks' = PostProcess(combined, minDuration, GapInTicks(gapFrames))
     /\ prTranscriptObject' = NoObject
     /\ content' = FormatSrt(finalSrtBlocks')
     /\ subtitles' = [k \in 1..Len(subtitles) |->
                        [subtitles[k] EXCEPT !.word = SanitizeWord(@)]]
     /\ UNCHANGED <<settingsVars, previousSrt, tsVars, appVars, romanizeVars, findVars, parseVars>>

HandleDownloadSrt ==
  LET grouped == GroupWords(subtitles, maxChars)
      combined == CombineLines(grouped, lines)
  IN /\ exportFormat' = "srt"
     /\ srtLines' = grouped
     /\ composedBlocks' = combined
     /\ finalSrtBlocks' = PostProcess(combined, minDuration, GapInTicks(gapFrames))
     /\ prTranscriptObject' = NoObject
     /\ content' = FormatSrt(finalSrtBlocks')
     /\ UNCHANGED <<subtitles, settingsVars, previousSrt, tsVars, appVars, romanizeVars, findVars, parseVars>>

Next ==
  \/ SetMaxChars
  \/ SetMinDuration
  \/ SetGapFrames
  \/ SetLines
  \/ HandleDownloadSrt

Spec == Init /\ [][Next]_vars

(***************************************************************************)
(* formatTimestamp on its own: the argument and the format are drawn in    *)
(* the initial state, the editor is idle, and the one step is the call.    *)
(***************************************************************************)
Formats == {"srt", "default"}

\* Times in whole milliseconds below 24 h, by their four printed fields.
TsMillis ==
  {h * 3600000 + m * 60000 + sec * 1000 + ms :
     h \in {0, 1, 23}, m \in {0, 59}, sec \in {0, 1, 59}, ms \in {0, 1, 500, 999}}

\* Arguments: NaN, +Infinity, negative times, a time past 24 h, one frame
\* (1/30 s, not a whole millisecond), and the times of TsMillis.
TsInputs ==
  {NaN, PosInfinity}
    \cup {Finite(ms * TicksPerMilli) : ms \in TsMillis \cup {-1, -1500, 86401500}}
    \cup {Finite(TicksPerSecond \div FrameRate)}

InitTimestamp ==
  /\ subtitles = <<>>
  /\ maxChars = DefaultMaxChars
  /\ minDuration = DefaultMinDuration
  /\ gapFrames = DefaultGapFrames
  /\ lines = "single"
  /\ exportFormat = "none"
  /\ srtLines = <<>>
  /\ composedBlocks = <<>>
  /\ finalSrtBlocks = <<>>
  /\ prTranscriptObject = NoObject
  /\ content = NoContent
  /\ previousSrt = NoContent
  /\ tsSeconds \in TsInputs
  /\ tsFormat \in Formats
  /\ tsResult = NotCalled
  /\ AppEditing
  /\ RomanizeIdle
  /\ FindIdle
  /\ ParseIdle

FormatTimestampCall ==
  /\ tsResult = NotCalled
  /\ tsResult' = formatTimestamp(tsSeconds, tsFormat)
  /\ UNCHANGED <<subtitles, settingsVars, exportVars, content, previousSrt,
                 tsSeconds, tsFormat, appVars, romanizeVars, findVars, parseVars>>

NextTimestamp == FormatTimestampCall

SpecTimestamp == InitTimestamp /\ [][NextTimestamp]_vars

(***************************************************************************)
(* All five formats of handleDownload, on lists whose words may hold CR/LF *)
(* characters.  The SRT pipeline's locals exist in the 'srt' case only.    *)
(***************************************************************************)
lineBreakWord == <<"o", "\r", "\n", "k">>
ExportWords == {Hi, lineBreakWord, blank}
ExportSpans == { <<Sec10(0), Sec10(4)>>, <<Sec10(5), Sec10(9)>> }
ExportTokens == {Token(w, span) : w \in ExportWords, span \in ExportSpans}
ExportTokenSeqs == SeqsUpTo(ExportTokens, MaxWords)

InitExports ==
  /\ subtitles \in ExportTokenSeqs
  /\ maxChars = DefaultMaxChars
  /\ minDuration = DefaultMinDuration
  /\ gapFrames = DefaultGapFrames
  /\ lines = "single"
  /\ exportFormat = "none"
  /\ srtLines = <<>>
  /\ composedBlocks = <<>>
  /\ finalSrtBlocks = <<>>
  /\ prTranscriptObject = NoObject
  /\ content = NoContent
  /\ previousSrt = NoContent
  /\ TsIdle
  /\ AppEditing
  /\ RomanizeIdle
  /\ FindIdle
  /\ ParseIdle

\* A download in another format: no SRT locals, and the SRT file it follows
\* is kept as previousSrt.
OtherFormat(format) ==
  /\ exportFormat' = format
  /\ srtLines' = <<>>
  /\ composedBlocks' = <<>>
  /\ finalSrtBlocks' = <<>>
  /\ previousSrt' = IF exportFormat = "srt" THEN content ELSE previousSrt
  /\ UNCHANGED <<subtitles, settingsVars, tsVars, appVars, romanizeVars, findVars, parseVars>>

HandleDownloadTxt ==
  /\ OtherFormat("txt")
  /\ prTranscriptObject' = NoObject
  /\ content' = Join([k \in 1..Len(subtitles) |-> subtitles[k].word], <<" ">>)

HandleDownloadCsv ==
  /\ OtherFormat("csv")
  /\ prTranscriptObject' = NoObject
  /\ content' = CsvHeader
                  \o Join([k \in 1..Len(subtitles) |-> CsvRow(subtitles[k])], <<"\n">>)

HandleDownloadJson ==
  /\ OtherFormat("json")
  /\ prTranscriptObject' = NoObject
  /\ content' = JsonStringify(
                  JsonArray([k \in 1..Len(subtitles) |-> SubtitleWordValue(subtitles[k])]),
                  0)

HandleDownloadPrtranscript ==
  /\ OtherFormat("prtranscript")
  /\ prTranscriptObject' = PrTranscriptObject(subtitles)
  /\ content' = JsonStringify(prTranscriptObject', 0)

NextExports ==
  \/ SetMaxChars
  \/ SetMinDuration
  \/ SetGapFrames
  \/ SetLines
  \/ HandleDownloadSrt
  \/ HandleDownloadTxt
  \/ HandleDownloadCsv
  \/ HandleDownloadJson
  \/ HandleDownloadPrtranscript

SpecExports == InitExports /\ [][NextExports]_vars

(***************************************************************************)
(* App: file selection, Generate, the transcription call and Start Over.   *)
(* A response of the Gemini API is a record: the call failed ("error"), or *)
(* its text is not JSON ("text"), is JSON but no array ("object"), or is   *)
(* an array of items, each with the set of keys it has.                    *)
(***************************************************************************)
RequiredKeys == {"word", "startTime", "endTime"}
Item(keys, token) ==
  [keys |-> keys, word |-> token.word,
   startTime |-> token.startTime, endTime |-> token.endTime]
FullItems(tokens) == [k \in 1..Len(tokens) |-> Item(RequiredKeys, tokens[k])]
ApiFailure == [kind |-> "error", items |-> <<>>]
NotJson == [kind |-> "text", items |-> <<>>]
JsonNoArray == [kind |-> "object", items |-> <<>>]
JsonArrayOf(items) == [kind |-> "array", items |-> items]

\* An item as a SubtitleWord.
AsSubtitleWord(item) ==
  [word |-> item.word, startTime |-> item.startTime, endTime |-> item.endTime]
AsSubtitleWords(items) == [k \in 1..Len(items) |-> AsSubtitleWord(items[k])]

ApiKeyNotSet == "API_KEY environment variable is not set."
RequestFailed == "Failed to fetch"
InvalidResponseFormat == "The AI returned an invalid response format. Please try again."

\* transcribeAudio, given the response of generateContent: the promise it
\* returns, settled.
transcribeAudio(response) ==
  IF ~apiKey THEN Rejected(ApiKeyNotSet)
  ELSE IF response.kind = "error" THEN Rejected(RequestFailed)
  ELSE IF /\ response.kind = "array"
          /\ \A k \in 1..Len(response.items) : RequiredKeys \subseteq response.items[k].keys
       THEN Resolved(AsSubtitleWords(response.items))
       ELSE Rejected(InvalidResponseFormat)

validTypes == {"audio/mpeg", "audio/wav", "audio/x-wav"}
FileTypes == validTypes \cup {"video/mp4", "audio/ogg"}

SelectFileFirst == <<"Please select an audio file first.">>
MissingApiKey ==
  <<"Missing API Key. Please ensure your API_KEY is configured correctly.">>
UnsupportedFileType(type) ==
  <<"Unsupported file type: ", type, ". Please upload an MP3 or WAV file.">>
TranscriptionFailed(errorMessage) == <<"Transcription failed: ", errorMessage>>

\* The state of App a handler starts from, and the state it leaves.
AppNow ==
  [appState |-> appState, audioFile |-> audioFile, error |-> error,
   subtitles |-> subtitles, transcription |-> transcription]
SetApp(next) ==
  /\ appState' = next.appState
  /\ audioFile' = next.audioFile
  /\ error' = next.error
  /\ subtitles' = next.subtitles
  /\ transcription' = next.transcription

\* Variant of handleFileSelect that forgets the selected file on a bad type.
handleFileSelectClearing(file) ==
  IF file \in validTypes
  THEN [AppNow EXCEPT !.audioFile = file, !.error = NoError]
  ELSE [AppNow EXCEPT !.audioFile = NoFile, !.error = UnsupportedFileType(file)]

handleFileSelect(file) ==
  IF file \in validTypes
  THEN [AppNow EXCEPT !.audioFile = file, !.error = NoError]
  ELSE [AppNow EXCEPT !.error = UnsupportedFileType(file)]

\* Variant of handleGenerate without the API key check.
handleGenerateNoKeyCheck ==
  IF audioFile = NoFile
  THEN [AppNow EXCEPT !.error = SelectFileFirst]
  ELSE [AppNow EXCEPT !.appState = "loading", !.error = NoError,
                      !.transcription = Pending]

\* handleGenerate up to its await.
handleGenerate ==
  IF audioFile = NoFile
  THEN [AppNow EXCEPT !.error = SelectFileFirst]
  ELSE IF ~apiKey
       THEN [AppNow EXCEPT !.error = MissingApiKey, !.appState = "error"]
       ELSE [AppNow EXCEPT !.appState = "loading", !.error = NoError,
                           !.transcription = Pending]

\* Variant of handleGenerateSettled that opens the editor after a failure too.
handleGenerateSettledAlwaysEditing(outcome) ==
  IF outcome.status = "resolved"
  THEN [AppNow EXCEPT !.subtitles = outcome.value, !.appState = "editing",
                      !.transcription = outcome]
  ELSE [AppNow EXCEPT !.error = TranscriptionFailed(outcome.value),
                      !.appState = "editing", !.transcription = outcome]

\* handleGenerate after its await: the try and the catch.
handleGenerateSettled(outcome) ==
  IF outcome.status = "resolved"
  THEN [AppNow EXCEPT !.subtitles = outcome.value, !.appState = "editing",
                      !.transcription = outcome]
  ELSE [AppNow EXCEPT !.error = TranscriptionFailed(outcome.value),
                      !.appState = "error", !.transcription = outcome]

handleRestart ==
  [AppNow EXCEPT !.audioFile = NoFile, !.subtitles = <<>>, !.error = NoError,
                 !.appState = "idle"]

\* Responses of the API to a transcription request.
ResponseTokens ==
  {Token(Hi, <<Sec10(0), Sec10(4)>>), Token(there, <<Sec10(5), Sec10(9)>>)}
ResponseTokenSeqs == SeqsUpTo(ResponseTokens, MaxResponseWords)
TranscribeResponses ==
  { ApiFailure, NotJson, JsonNoArray,
    JsonArrayOf(<<Item({"word", "startTime"}, Token(Hi, <<Sec10(0), Sec10(4)>>))>>) }
    \cup {JsonArrayOf(FullItems(tokens)) : tokens \in ResponseTokenSeqs}

\* What App leaves alone.
EditorUnchanged ==
  UNCHANGED <<settingsVars, exportVars, content, previousSrt, tsVars,
              romanizeVars, findVars, parseVars, apiKey>>

InitApp ==
  /\ appState = "idle"
  /\ audioFile = NoFile
  /\ subtitles = <<>>
  /\ error = NoError
  /\ apiKey \in BOOLEAN
  /\ transcription = NoCall
  /\ maxChars = DefaultMaxChars
  /\ minDuration = DefaultMinDuration
  /\ gapFrames = DefaultGapFrames
  /\ lines = "single"
  /\ exportFormat = "none"
  /\ srtLines = <<>>
  /\ composedBlocks = <<>>
  /\ finalSrtBlocks = <<>>
  /\ prTranscriptObject = NoObject
  /\ content = NoContent
  /\ previousSrt = NoContent
  /\ TsIdle
  /\ RomanizeIdle
  /\ FindIdle
  /\ ParseIdle

\* FileUpload and the Generate button are rendered in 'idle' and 'error'.
UploadRendered == appState \in {"idle", "error"}

FileSelected ==
  /\ UploadRendered
  /\ \E file \in FileTypes : SetApp(handleFileSelect(file))
  /\ EditorUnchanged

\* A click on Generate Subtitles: disabled={!audioFile}.
GenerateClicked ==
  /\ UploadRendered
  /\ audioFile # NoFile
  /\ SetApp(handleGenerate)
  /\ EditorUnchanged

\* The transcribeAudio call settles.
TranscriptionSettled ==
  /\ transcription.status = "pending"
  /\ \E response \in TranscribeResponses :
       SetApp(handleGenerateSettled(transcribeAudio(response)))
  /\ EditorUnchanged

\* Start Over, in the editor.
RestartClicked ==
  /\ appState = "editing"
  /\ SetApp(handleRestart)
  /\ EditorUnchanged

NextApp ==
  \/ FileSelected
  \/ GenerateClicked
  \/ TranscriptionSettled
  \/ RestartClicked

SpecApp == InitApp /\ [][NextApp]_vars

(***************************************************************************)
(* SubtitleEditor: Romanize and the word inputs.  The session's language   *)
(* is not English, so the Romanize button is shown.                        *)
(***************************************************************************)
InvalidTransliterationFormat ==
  "The AI returned an invalid response format for transliteration. Please try again."
FailedToRomanize(errorMessage) == <<"Failed to Romanize: ", errorMessage>>

\* Variant of transliterateText that does not compare the lengths.
transliterateTextAnyLength(subs, response) ==
  IF ~apiKey THEN Rejected(ApiKeyNotSet)
  ELSE IF response.kind = "error" THEN Rejected(RequestFailed)
  ELSE IF /\ response.kind = "array"
          /\ \A k \in 1..Len(response.items) : RequiredKeys \subseteq response.items[k].keys
       THEN Resolved(AsSubtitleWords(response.items))
       ELSE Rejected(InvalidTransliterationFormat)

\* transliterateText(subs), given the response of generateContent: the
\* promise it returns, settled.
transliterateText(subs, response) ==
  IF ~apiKey THEN Rejected(ApiKeyNotSet)
  ELSE IF response.kind = "error" THEN Rejected(RequestFailed)
  ELSE IF /\ response.kind = "array"
          /\ Len(response.items) = Len(subs)
          /\ \A k \in 1..Len(response.items) : RequiredKeys \subseteq response.items[k].keys
       THEN Resolved(AsSubtitleWords(response.items))
       ELSE Rejected(InvalidTransliterationFormat)

\* The Romanize state of the editor a handler starts from, and the state it
\* leaves.
RomanizeNow ==
  [subtitles |-> subtitles, isTranslating |-> isTranslating,
   hasBeenRomanized |-> hasBeenRomanized,
   transliterationError |-> transliterationError,
   transliteration |-> transliteration]
SetRomanize(next) ==
  /\ subtitles' = next.subtitles
  /\ isTranslating' = next.isTranslating
  /\ hasBeenRomanized' = next.hasBeenRomanized
  /\ transliterationError' = next.transliterationError
  /\ transliteration' = next.transliteration

\* handleRomanize up to its await; the promise keeps the list submitted.
handleRomanize ==
  [RomanizeNow EXCEPT !.isTranslating = TRUE, !.transliterationError = NoError,
                      !.transliteration = [status |-> "pending", value |-> subtitles]]

\* handleRomanize after its await: try, catch and finally.
handleRomanizeSettled(outcome) ==
  IF outcome.status = "resolved"
  THEN [RomanizeNow EXCEPT !.subtitles = outcome.value, !.hasBeenRomanized = TRUE,
                           !.isTranslating = FALSE, !.transliteration = outcome]
  ELSE [RomanizeNow EXCEPT !.transliterationError = FailedToRomanize(outcome.value),
                           !.isTranslating = FALSE, !.transliteration = outcome]

\* The word the API returns for a word, and a token with that word.
Romanized(word) == IF word = Hi THEN friend ELSE word \o <<"a">>
RomanizedToken(s) == [s EXCEPT !.word = Romanized(s.word)]

\* Responses of the API to the list submitted: the failures, the romanized
\* list, the romanized list with an item more, with an item less, and with
\* the endTime key missing in its first item.
TransliterateResponses(subs) ==
  LET items == FullItems([k \in 1..Len(subs) |-> RomanizedToken(subs[k])])
  IN { ApiFailure, NotJson, JsonNoArray, JsonArrayOf(items),
       JsonArrayOf(Append(items, Item(RequiredKeys, Token(friend, <<Sec10(20), Sec10(25)>>)))) }
       \cup (IF items = <<>> THEN {}
             ELSE { JsonArrayOf(Tail(items)),
                    JsonArrayOf([items EXCEPT ![1].keys = {"word", "startTime"}]) })

\* What the Romanize handlers and the word inputs leave alone.
RomanizeFrame ==
  UNCHANGED <<settingsVars, tsVars, appVars, findVars, parseVars>>

\* Words typed into a word input.
TypedWords == {Hi, there}

InitRomanize ==
  /\ subtitles \in ResponseTokenSeqs
  /\ maxChars = DefaultMaxChars
  /\ minDuration = DefaultMinDuration
  /\ gapFrames = DefaultGapFrames
  /\ lines = "single"
  /\ exportFormat = "none"
  /\ srtLines = <<>>
  /\ composedBlocks = <<>>
  /\ finalSrtBlocks = <<>>
  /\ prTranscriptObject = NoObject
  /\ content = NoContent
  /\ previousSrt = NoContent
  /\ TsIdle
  /\ AppEditing
  /\ RomanizeIdle
  /\ FindIdle
  /\ ParseIdle

\* A click on Romanize: disabled={isTranslating || hasBeenRomanized}.
RomanizeClicked ==
  /\ ~isTranslating
  /\ ~hasBeenRomanized
  /\ SetRomanize(handleRomanize)
  /\ NoExport
  /\ RomanizeFrame

\* The transliterateText call settles.
TransliterationSettled ==
  /\ transliteration.status = "pending"
  /\ \E response \in TransliterateResponses(transliteration.value) :
       SetRomanize(handleRomanizeSettled(
                     transliterateText(transliteration.value, response)))
  /\ NoExport
  /\ RomanizeFrame

\* handleWordChange(index, newWord), for the 1-based index.
HandleWordChange ==
  /\ \E index \in 1..Len(subtitles), newWord \in TypedWords :
       /\ subtitles[index].word # newWord
       /\ subtitles' = [subtitles EXCEPT ![index].word = newWord]
  /\ NoExport
  /\ UNCHANGED <<romanizeVars>>
  /\ RomanizeFrame

NextRomanize ==
  \/ RomanizeClicked
  \/ TransliterationSettled
  \/ HandleWordChange

SpecRomanize == InitRomanize /\ [][NextRomanize]_vars

(***************************************************************************)
(* SubtitleEditor: find and replace (TextToolsWidget's Find, Replace with, *)
(* Case sensitive, Replace and Clear).  lastReplacedIndex and the indices  *)
(* of foundIndices are the 0-based indices of the code.                    *)
(***************************************************************************)
wordA == <<"a">>
wordAb == <<"A", "b">>
wordB == <<"b">>
ReplaceTokens ==
  { Token(wordA, <<Sec10(0), Sec10(4)>>), Token(wordAb, <<Sec10(5), Sec10(9)>>),
    Token(wordB, <<Sec10(20), Sec10(25)>>) }
FindTerms == { <<>>, <<"a">> }
ReplaceTerms == { <<>>, <<"a", "a">>, <<"$", "&">> }

\* Replace is not clicked any more once a word is longer than this.
MaxWordLength == 2

UpperCaseLetters == <<"A", "B", "H">>
LowerCaseLetters == <<"a", "b", "h">>
LowerChar(c) ==
  IF \E n \in 1..Len(UpperCaseLetters) : UpperCaseLetters[n] = c
  THEN LowerCaseLetters[CHOOSE n \in 1..Len(UpperCaseLetters) : UpperCaseLetters[n] = c]
  ELSE c
ToLowerCase(str) == [n \in 1..Len(str) |-> LowerChar(str[n])]

\* str.includes(term)
Includes(str, term) ==
  \E pos \in 1..(Len(str) - Len(term) + 1) :
    SubSeq(str, pos, pos + Len(term) - 1) = term

\* The escaped find term, as a regular expression, matches at pos of str.
MatchesAt(str, term, pos, caseSensitive) ==
  /\ pos + Len(term) - 1 <= Len(str)
  /\ LET found == SubSeq(str, pos, pos + Len(term) - 1)
     IN IF caseSensitive THEN found = term
        ELSE ToLowerCase(found) = ToLowerCase(term)

\* The replacement string of String.replace, expanded for the match of
\* length n at pos of str: $$, $&, $` and $' are patterns, there are no
\* groups, every other character stands for itself.
RECURSIVE Expand(_, _, _, _)
Expand(replacement, str, pos, n) ==
  IF replacement = <<>> THEN <<>>
  ELSE IF Head(replacement) = "$" /\ Len(replacement) >= 2
            /\ replacement[2] \in {"$", "&", "`", "'"}
       THEN (CASE replacement[2] = "$" -> <<"$">>
               [] replacement[2] = "&" -> SubSeq(str, pos, pos + n - 1)
               [] replacement[2] = "`" -> SubSeq(str, 1, pos - 1)
               [] replacement[2] = "'" -> SubSeq(str, pos + n, Len(str)))
            \o Expand(SubSeq(replacement, 3, Len(replacement)), str, pos, n)
       ELSE <<Head(replacement)>> \o Expand(Tail(replacement), str, pos, n)

\* str.replace(regex, replacement) from pos on, for the global regex of a
\* non-empty term: the matches are taken left to right, without overlap.
RECURSIVE RegexReplaceFrom(_, _, _, _, _)
RegexReplaceFrom(str, term, replacement, caseSensitive, pos) ==
  IF pos > Len(str) THEN <<>>
  ELSE IF MatchesAt(str, term, pos, caseSensitive)
       THEN Expand(replacement, str, pos, Len(term))
            \o RegexReplaceFrom(str, term, replacement, caseSensitive, pos + Len(term))
       ELSE <<str[pos]>> \o RegexReplaceFrom(str, term, replacement, caseSensitive, pos + 1)
RegexReplace(str, term, replacement, caseSensitive) ==
  RegexReplaceFrom(str, term, replacement, caseSensitive, 1)

\* The memo foundIndices.
foundIndices ==
  IF findTerm = <<>> THEN {}
  ELSE { index \in 0..(Len(subtitles) - 1) :
           LET source == IF findCaseSensitive THEN subtitles[index + 1].word
                         ELSE ToLowerCase(subtitles[index + 1].word)
               term == IF findCaseSensitive THEN findTerm ELSE ToLowerCase(findTerm)
           IN Includes(source, term) }

\* The value onReplace returns, as the variable replaceResult keeps it.
Returned(count) == <<"returned", count>>

\* Variant of onReplace that searches from the first token every time.
onReplaceFromStart ==
  IF findTerm = <<>> \/ foundIndices = {}
  THEN [subtitles |-> subtitles, lastReplacedIndex |-> lastReplacedIndex, count |-> 0]
  ELSE LET nextIndex == CHOOSE i \in foundIndices : \A j \in foundIndices : i <= j
           originalWord == subtitles[nextIndex + 1].word
       IN [subtitles |-> [subtitles EXCEPT ![nextIndex + 1].word =
                            RegexReplace(originalWord, findTerm, replaceTerm,
                                         findCaseSensitive)],
           lastReplacedIndex |-> nextIndex, count |-> 1]

\* onReplace: the token list and lastReplacedIndex it leaves, and the count
\* it returns.
onReplace ==
  LET later == { i \in foundIndices : i > lastReplacedIndex }
  IN IF findTerm = <<>> \/ later = {}
     THEN [subtitles |-> subtitles, lastReplacedIndex |-> lastReplacedIndex, count |-> 0]
     ELSE LET nextIndex == CHOOSE i \in later : \A j \in later : i <= j
              originalWord == subtitles[nextIndex + 1].word
          IN [subtitles |-> [subtitles EXCEPT ![nextIndex + 1].word =
                               RegexReplace(originalWord, findTerm, replaceTerm,
                                            findCaseSensitive)],
              lastReplacedIndex |-> nextIndex, count |-> 1]

\* What the find and replace handlers leave alone.
ReplaceFrame ==
  UNCHANGED <<settingsVars, tsVars, appVars, romanizeVars, parseVars>>

InitReplace ==
  /\ subtitles \in SeqsUpTo(ReplaceTokens, MaxWords)
  /\ maxChars = DefaultMaxChars
  /\ minDuration = DefaultMinDuration
  /\ gapFrames = DefaultGapFrames
  /\ lines = "single"
  /\ exportFormat = "none"
  /\ srtLines = <<>>
  /\ composedBlocks = <<>>
  /\ finalSrtBlocks = <<>>
  /\ prTranscriptObject = NoObject
  /\ content = NoContent
  /\ previousSrt = NoContent
  /\ TsIdle
  /\ AppEditing
  /\ RomanizeIdle
  /\ FindIdle
  /\ ParseIdle

\* The Find input changes: setFindTerm, then the effect on [findTerm,
\* findCaseSensitive] resets lastReplacedIndex.
FindTermChanged ==
  /\ \E term \in FindTerms :
       /\ term # findTerm
       /\ findTerm' = term
  /\ lastReplacedIndex' = -1
  /\ replaceCount' = 0
  /\ UNCHANGED <<subtitles, replaceTerm, findCaseSensitive, replaceResult>>
  /\ NoExport
  /\ ReplaceFrame

\* The Replace with input changes.
ReplaceTermChanged ==
  /\ \E term \in ReplaceTerms :
       /\ term # replaceTerm
       /\ replaceTerm' = term
  /\ UNCHANGED <<subtitles, findTerm, findCaseSensitive, lastReplacedIndex,
                 replaceResult, replaceCount>>
  /\ NoExport
  /\ ReplaceFrame

\* The Case sensitive checkbox is toggled; the same effect runs.
CaseSensitiveChanged ==
  /\ findCaseSensitive' = ~findCaseSensitive
  /\ lastReplacedIndex' = -1
  /\ replaceCount' = 0
  /\ UNCHANGED <<subtitles, findTerm, replaceTerm, replaceResult>>
  /\ NoExport
  /\ ReplaceFrame

\* handleClear: both terms become empty; the effect runs when the find term
\* was not empty already.
ClearClicked ==
  /\ findTerm' = <<>>
  /\ replaceTerm' = <<>>
  /\ lastReplacedIndex' = IF findTerm # <<>> THEN -1 ELSE lastReplacedIndex
  /\ replaceCount' = IF findTerm # <<>> THEN 0 ELSE replaceCount
  /\ UNCHANGED <<subtitles, findCaseSensitive, replaceResult>>
  /\ NoExport
  /\ ReplaceFrame

\* handleReplace: a click on Replace.
ReplaceClicked ==
  /\ \A k \in 1..Len(subtitles) : Len(subtitles[k].word) <= MaxWordLength
  /\ subtitles' = onReplace.subtitles
  /\ lastReplacedIndex' = onReplace.lastReplacedIndex
  /\ replaceResult' = Returned(onReplace.count)
  /\ replaceCount' = replaceCount + onReplace.count
  /\ UNCHANGED <<findTerm, replaceTerm, findCaseSensitive>>
  /\ NoExport
  /\ ReplaceFrame

NextReplace ==
  \/ FindTermChanged
  \/ ReplaceTermChanged
  \/ CaseSensitiveChanged
  \/ ClearClicked
  \/ ReplaceClicked

SpecReplace == InitReplace /\ [][NextReplace]_vars

(***************************************************************************)
(* parseSRT: the text of an SRT file, read by a FileReader, becomes word   *)
(* tokens.                                                                 *)
(***************************************************************************)
\* Number of blocks of the files parsed.
MaxBlocks == 2

\* String.prototype.split(separator), for a non-empty separator string.
RECURSIVE JsSplit(_, _)
JsSplit(str, sep) ==
  IF ~Includes(str, sep) THEN <<str>>
  ELSE LET first == CHOOSE p \in 1..Len(str) :
                      /\ SubSeq(str, p, p + Len(sep) - 1) = sep
                      /\ \A q \in 1..(p - 1) : SubSeq(str, q, q + Len(sep) - 1) # sep
       IN <<SubSeq(str, 1, first - 1)>>
          \o JsSplit(SubSeq(str, first + Len(sep), Len(str)), sep)

\* text.replace(/\r\n/g, '\n'): the text without every CR that a LF follows.
NormalizeLineEndings(text) ==
  LET kept == { p \in 1..Len(text) :
                  ~(text[p] = "\r" /\ p < Len(text) /\ text[p + 1] = "\n") }
  IN [i \in 1..Cardinality(kept) |->
        text[CHOOSE p \in kept : Cardinality({ q \in kept : q <= p }) = i]]

\* Where the match of /\n\s*\n/ that starts at p ends, 0 when there is none.
SeparatorEnd(text, p) ==
  LET ends == { q \in (p + 1)..Len(text) :
                  /\ text[q] = "\n"
                  /\ \A k \in (p + 1)..(q - 1) : IsWhitespace(text[k]) }
  IN IF text[p] # "\n" \/ ends = {} THEN 0
     ELSE CHOOSE q \in ends : \A r \in ends : r <= q

\* text.split(/\n\s*\n/)
RECURSIVE SplitBlocks(_)
SplitBlocks(text) ==
  LET starts == { p \in 1..Len(text) : SeparatorEnd(text, p) # 0 }
  IN IF starts = {} THEN <<text>>
     ELSE LET p == CHOOSE a \in starts : \A b \in starts : a <= b
          IN <<SubSeq(text, 1, p - 1)>>
             \o SplitBlocks(SubSeq(text, SeparatorEnd(text, p) + 1, Len(text)))

\* null, the value of parseTime for a string without a timestamp.
NoTime == -1

IsDigit(c) == \E d \in 1..10 : Digits[d] = c
RECURSIVE parseInt(_)
parseInt(str) ==
  IF str = <<>> THEN 0
  ELSE 10 * parseInt(SubSeq(str, 1, Len(str) - 1))
       + (CHOOSE d \in 0..9 : Digits[d + 1] = str[Len(str)])

\* /(\d{2}):(\d{2}):(\d{2})[,.](\d{3})/ matches at pos of str.
TimestampAt(str, pos) ==
  /\ pos + 11 <= Len(str)
  /\ \A k \in {0, 1, 3, 4, 6, 7, 9, 10, 11} : IsDigit(str[pos + k])
  /\ str[pos + 2] = ":"
  /\ str[pos + 5] = ":"
  /\ str[pos + 8] \in {",", "."}

\* parseTime(timeString), in ticks.
parseTime(timeString) ==
  LET found == { pos \in 1..Len(timeString) : TimestampAt(timeString, pos) }
  IN IF timeString = <<>> \/ found = {} THEN NoTime
     ELSE LET pos == CHOOSE a \in found : \A b \in found : a <= b
              h == parseInt(SubSeq(timeString, pos, pos + 1))
              m == parseInt(SubSeq(timeString, pos + 3, pos + 4))
              sec == parseInt(SubSeq(timeString, pos + 6, pos + 7))
              ms == parseInt(SubSeq(timeString, pos + 9, pos + 11))
          IN (h * 3600 + m * 60 + sec) * TicksPerSecond + ms * TicksPerMilli

\* fullText.replace(/<[^>]*>/g, '')
RECURSIVE StripTags(_)
StripTags(text) ==
  IF text = <<>> THEN <<>>
  ELSE IF Head(text) = "<" /\ \E q \in 2..Len(text) : text[q] = ">"
       THEN LET close == CHOOSE q \in 2..Len(text) :
                           text[q] = ">" /\ \A r \in 2..(q - 1) : text[r] # ">"
            IN StripTags(SubSeq(text, close + 1, Len(text)))
       ELSE <<Head(text)>> \o StripTags(Tail(text))

\* cleanText.split(/\s+/)
RECURSIVE SplitWhitespace(_)
SplitWhitespace(text) ==
  IF \A n \in 1..Len(text) : ~IsWhitespace(text[n]) THEN <<text>>
  ELSE LET first == CHOOSE p \in 1..Len(text) :
                      IsWhitespace(text[p]) /\ \A q \in 1..(p - 1) : ~IsWhitespace(text[q])
       IN <<SubSeq(text, 1, first - 1)>>
          \o SplitWhitespace(DropWhile(SubSeq(text, first, Len(text)), FALSE))

\* Variant of WordTokens that gives every word the duration of the block.
WordTokensWholeDuration(lineWords, startTime, endTime) ==
  LET wordDuration == endTime - startTime
  IN [i \in 1..Len(lineWords) |->
        [word |-> lineWords[i],
         startTime |-> startTime + ((i - 1) * wordDuration),
         endTime |-> startTime + (i * wordDuration)]]

\* The tokens pushed for the words of a block.
WordTokens(lineWords, startTime, endTime) ==
  LET wordDuration == (endTime - startTime) \div Len(lineWords)
  IN [i \in 1..Len(lineWords) |->
        [word |-> lineWords[i],
         startTime |-> startTime + ((i - 1) * wordDuration),
         endTime |-> startTime + (i * wordDuration)]]

\* The body of blocks.forEach: the tokens a block adds to words.
ParseBlock(block) ==
  LET blockLines == JsSplit(block, <<"\n">>)
      timeLines == { i \in 1..Len(blockLines) : Includes(blockLines[i], <<"-", "-", ">">>) }
  IN IF Len(blockLines) < 2 \/ timeLines = {} THEN <<>>
     ELSE LET timeLineIndex == CHOOSE a \in timeLines : \A b \in timeLines : a <= b
              parts == JsSplit(blockLines[timeLineIndex], Arrow)
              startTime == parseTime(parts[1])
              endTime == IF Len(parts) >= 2 THEN parseTime(parts[2]) ELSE NoTime
              textLines == SubSeq(blockLines, timeLineIndex + 1, Len(blockLines))
              cleanText == Trim(StripTags(Join(textLines, <<" ">>)))
          IN IF startTime = NoTime \/ endTime = NoTime \/ cleanText = <<>> THEN <<>>
             ELSE WordTokens(SplitWhitespace(cleanText), startTime, endTime)

RECURSIVE ParseBlocks(_)
ParseBlocks(blocks) ==
  IF blocks = <<>> THEN <<>>
  ELSE ParseBlock(Head(blocks)) \o ParseBlocks(Tail(blocks))

\* reader.onload: the words parseSRT resolves for the text of the file.
parseSRT(text) ==
  IF text = <<>> THEN <<>>
  ELSE ParseBlocks(SplitBlocks(Trim(NormalizeLineEndings(text))))

ReaderError == "reader error"

\* The blocks the files are written from: with or without an index line;
\* with a time line that has a comma or a dot before the milliseconds, one
\* digit for the seconds of its start ("short"), no spaces around the arrow
\* ("nospace"), or with no time line; with text lines of words, inside
\* <i>...</i> when tagged.
SrtBlocks ==
  { [index |-> TRUE, timing |-> "comma", span |-> <<Sec10(10), Sec10(20)>>,
     text |-> <<(<<Hi, there>>)>>, tagged |-> FALSE],
    [index |-> TRUE, timing |-> "dot", span |-> <<Sec10(20), Sec10(35)>>,
     text |-> <<(<<Hi>>), (<<there, friend>>)>>, tagged |-> TRUE],
    [index |-> FALSE, timing |-> "comma", span |-> <<Sec10(40), Sec10(45)>>,
     text |-> <<(<<friend>>)>>, tagged |-> FALSE],
    [index |-> TRUE, timing |-> "none", span |-> <<Sec10(10), Sec10(20)>>,
     text |-> <<(<<Hi, there>>)>>, tagged |-> FALSE],
    [index |-> TRUE, timing |-> "short", span |-> <<Sec10(10), Sec10(20)>>,
     text |-> <<(<<Hi>>)>>, tagged |-> FALSE],
    [index |-> TRUE, timing |-> "nospace", span |-> <<Sec10(10), Sec10(20)>>,
     text |-> <<(<<Hi>>)>>, tagged |-> FALSE],
    [index |-> TRUE, timing |-> "comma", span |-> <<Sec10(10), Sec10(20)>>,
     text |-> <<>>, tagged |-> FALSE],
    [index |-> TRUE, timing |-> "comma", span |-> <<Sec10(10), Sec10(20)>>,
     text |-> <<(<<>>)>>, tagged |-> TRUE],
    [index |-> FALSE, timing |-> "comma", span |-> <<Sec10(10), Sec10(20)>>,
     text |-> <<>>, tagged |-> FALSE] }

\* How the blocks are laid out in a file: the line ending, the lines
\* between two blocks, and blank lines around the blocks.
SrtLayouts ==
  { [newline |-> <<"\n">>, between |-> <<(<<>>)>>, padded |-> FALSE],
    [newline |-> <<"\r", "\n">>, between |-> <<(<<>>)>>, padded |-> FALSE],
    [newline |-> <<"\n">>, between |-> <<(<<" ">>), (<<>>)>>, padded |-> TRUE] }

\* hh:mm:ss and the milliseconds, after the given separator.
TimeText(ticks, separator) ==
  LET millis == ticks \div TicksPerMilli
      total == millis \div 1000
  IN Pad2(total \div 3600) \o <<":">> \o Pad2((total \div 60) % 60) \o <<":">>
     \o Pad2(total % 60) \o <<separator>> \o Pad3(millis % 1000)

TimeLineText(b) ==
  CASE b.timing = "comma" -> TimeText(b.span[1], ",") \o Arrow \o TimeText(b.span[2], ",")
    [] b.timing = "dot" -> TimeText(b.span[1], ".") \o Arrow \o TimeText(b.span[2], ".")
    [] b.timing = "short" ->
         <<"0", "0", ":", "0", "0", ":", "1", ",", "0", "0", "0">> \o Arrow
         \o TimeText(b.span[2], ",")
    [] b.timing = "nospace" ->
         TimeText(b.span[1], ",") \o <<"-", "-", ">">> \o TimeText(b.span[2], ",")

TextLine(lineWords, tagged) ==
  IF tagged THEN <<"<", "i", ">">> \o Join(lineWords, <<" ">>) \o <<"<", "/", "i", ">">>
  ELSE Join(lineWords, <<" ">>)

BlockLines(b) ==
  (IF b.index THEN <<(<<"1">>)>> ELSE <<>>)
  \o (IF b.timing = "none" THEN <<>> ELSE <<TimeLineText(b)>>)
  \o [n \in 1..Len(b.text) |-> TextLine(b.text[n], b.tagged)]

RECURSIVE FileLines(_, _)
FileLines(blocks, between) ==
  IF blocks = <<>> THEN <<>>
  ELSE IF Len(blocks) = 1 THEN BlockLines(blocks[1])
       ELSE BlockLines(blocks[1]) \o between \o FileLines(Tail(blocks), between)

FileText(blocks, layout) ==
  LET body == FileLines(blocks, layout.between)
  IN Join(IF layout.padded THEN <<(<<>>)>> \o body \o <<(<<>>), (<<>>)>> ELSE body,
          layout.newline)

SrtBlockSeqs == SeqsUpTo(SrtBlocks, MaxBlocks)
SrtFiles == { FileText(blocks, layout) : blocks \in SrtBlockSeqs, layout \in SrtLayouts }

InitParseSRT ==
  /\ subtitles = <<>>
  /\ maxChars = DefaultMaxChars
  /\ minDuration = DefaultMinDuration
  /\ gapFrames = DefaultGapFrames
  /\ lines = "single"
  /\ exportFormat = "none"
  /\ srtLines = <<>>
  /\ composedBlocks = <<>>
  /\ finalSrtBlocks = <<>>
  /\ prTranscriptObject = NoObject
  /\ content = NoContent
  /\ previousSrt = NoContent
  /\ TsIdle
  /\ AppEditing
  /\ RomanizeIdle
  /\ FindIdle
  /\ srtFile \in SrtFiles
  /\ parsedWords = NoCall

ParseFrame ==
  UNCHANGED <<subtitles, settingsVars, exportVars, content, previousSrt, tsVars,
              appVars, romanizeVars, findVars, srtFile>>

\* parseSRT(file) when the reader loads the file.
ParseSRTCall ==
  /\ parsedWords.status = "none"
  /\ parsedWords' = Resolved(parseSRT(srtFile))
  /\ ParseFrame

\* parseSRT(file) when the reader fails.
ParseSRTReadFailed ==
  /\ parsedWords.status = "none"
  /\ parsedWords' = Rejected(ReaderError)
  /\ ParseFrame

NextParseSRT ==
  \/ ParseSRTCall
  \/ ParseSRTReadFailed

SpecParseSRT == InitParseSRT /\ [][NextParseSRT]_vars

TypeOK ==
  /\ subtitles \in TokenSeqs \cup ExportTokenSeqs
  /\ maxChars \in MaxCharsValues
  /\ minDuration \in MinDurationValues
  /\ gapFrames \in GapFramesValues
  /\ lines \in LinesValues
  /\ exportFormat \in {"none", "srt", "txt", "csv", "json", "prtranscript"}
  /\ tsFormat \in Formats

(***************************************************************************)
(* Properties of the SRT export                                            *)
(***************************************************************************)
Exported == exportFormat = "srt"
gapInSeconds == GapInTicks(gapFrames)
BlockIndices == 1..Len(finalSrtBlocks)
PairIndices == 1..(Len(finalSrtBlocks) - 1)

\* The gap-clamped end of block i is not after its start.
GapCollides(i) ==
  finalSrtBlocks[i + 1].startTime - gapInSeconds <= finalSrtBlocks[i].startTime
GapKept(i) ==
  finalSrtBlocks[i + 1].startTime - finalSrtBlocks[i].endTime >= gapInSeconds
IsFallbackBlock(i) ==
  finalSrtBlocks[i].endTime = finalSrtBlocks[i].startTime + FallbackTicks

\* Every token lasts and no token starts before its predecessor ends.
Chronological(subs) ==
  /\ \A i \in 1..Len(subs) : subs[i].endTime > subs[i].startTime
  /\ \A i \in 1..(Len(subs) - 1) : subs[i + 1].startTime >= subs[i].endTime

\* The tokens the word loop does not skip.
KeptWord(t) == SanitizeWord(t.word) # <<>>
WordsReachingGrouping == SelectSeq(subtitles, KeptWord)

\* C1: every block of an SRT export, the last one included, ends strictly
\* after it starts.
C1_PositiveDuration ==
  Exported =>
    \A i \in BlockIndices : finalSrtBlocks[i].endTime > finalSrtBlocks[i].startTime

\* An export of at least two blocks in which a block whose words span no time
\* is followed by a block that starts at the same instant.
C1_Witness ==
  /\ Exported
  /\ \E i \in PairIndices :
       /\ composedBlocks[i].endTime = composedBlocks[i].startTime
       /\ composedBlocks[i + 1].startTime = composedBlocks[i].startTime
       /\ gapFrames = 0

\* C2 as stated: consecutive blocks never overlap and always keep the
\* configured gap.  It is stated here for token lists that are already
\* chronological (what a sanitizer would deliver), so that its failure does
\* not rest on ill-formed input.
C2_GapAlwaysKept ==
  (Exported /\ Chronological(subtitles)) =>
    \A i \in PairIndices :
      /\ finalSrtBlocks[i].endTime <= finalSrtBlocks[i + 1].startTime
      /\ GapKept(i)

\* C2 as amended: a block keeps the configured gap to its successor (and so
\* does not overlap it) exactly when the successor starts more than the gap
\* after the block's own start; otherwise the block gets the 50 ms fallback
\* and the gap is not kept.
C2_GapKeptUnlessCollision ==
  Exported =>
    \A i \in PairIndices :
      /\ ~GapCollides(i) =>
           /\ GapKept(i)
           /\ finalSrtBlocks[i].endTime <= finalSrtBlocks[i + 1].startTime
      /\ GapCollides(i) => ~GapKept(i) /\ IsFallbackBlock(i)

\* A well-ordered pair of blocks whose end was clamped to keep a non-zero gap.
C2_Witness ==
  /\ Exported
  /\ gapFrames > 0
  /\ \E i \in PairIndices :
       /\ ~GapCollides(i)
       /\ finalSrtBlocks[i].endTime = finalSrtBlocks[i + 1].startTime - gapInSeconds
       /\ finalSrtBlocks[i].endTime < composedBlocks[i].startTime + minDuration

\* C3: after post-processing every consecutive pair either keeps the gap or
\* its first block is a fallback block ending exactly 50 ms after its start.
C3_GapOrFallback ==
  Exported => \A i \in PairIndices : GapKept(i) \/ IsFallbackBlock(i)

\* An export with both cases: a pair that keeps a non-zero gap and a fallback
\* block that does not.
C3_Witness ==
  /\ Exported
  /\ gapFrames > 0
  /\ \E i \in PairIndices : GapKept(i) /\ ~IsFallbackBlock(i)
  /\ \E i \in PairIndices : IsFallbackBlock(i) /\ ~GapKept(i)

\* C4: the blocks of an SRT export have non-decreasing start times in
\* emission order, whatever the token list.
C4_StartTimesNonDecreasing ==
  Exported =>
    \A i \in PairIndices :
      finalSrtBlocks[i].startTime <= finalSrtBlocks[i + 1].startTime

\* C5: the words that reach the grouping step do not overlap: each starts at
\* or after the end of the word before it.
C5_WordsDoNotOverlap ==
  Exported =>
    LET ws == WordsReachingGrouping
    IN \A i \in 1..(Len(ws) - 1) : ws[i + 1].startTime >= ws[i].endTime

\* C6: every word that reaches the grouping step lasts: its end is after its
\* start.
C6_WordsLast ==
  Exported =>
    LET ws == WordsReachingGrouping
    IN \A i \in 1..Len(ws) : ws[i].endTime > ws[i].startTime

\* Scenario 1 of the specification.
Scenario1 ==
  << Token(Hi, <<Sec10(0), Sec10(4)>>),
     Token(there, <<Sec10(5), Sec10(9)>>),
     Token(friend, <<Sec10(20), Sec10(25)>>) >>

\* The successor of block i, if any, leaves room for the minimum duration.
RoomForMinDuration(i) ==
  \/ i = Len(finalSrtBlocks)
  \/ finalSrtBlocks[i + 1].startTime - gapInSeconds
       >= finalSrtBlocks[i].startTime + minDuration

InScenario2 ==
  /\ Exported
  /\ subtitles = Scenario1
  /\ maxChars = 10
  /\ minDuration = Sec10(12)
  /\ gapFrames = 0
  /\ lines = "single"

\* C7: a block lasts at least minDuration unless its successor starts less
\* than minDuration plus the gap after it; the last block always does; and the
\* block 'Hi there' (0-0.9 s) followed by 'friend' at 2.0 s ends at 1.2 s when
\* minDuration is 1.2 s and the gap is 0.
C7_MinDuration ==
  /\ Exported =>
       \A i \in BlockIndices :
         RoomForMinDuration(i) =>
           finalSrtBlocks[i].endTime - finalSrtBlocks[i].startTime >= minDuration
  /\ InScenario2 =>
       /\ Len(finalSrtBlocks) = 2
       /\ composedBlocks[1].endTime - composedBlocks[1].startTime = Sec10(9)
       /\ finalSrtBlocks[2].startTime = Sec10(20)
       /\ finalSrtBlocks[1].endTime = finalSrtBlocks[1].startTime + Sec10(12)

\* Scenario 2 has been exported.
C7_Witness == InScenario2 /\ Len(finalSrtBlocks) = 2

\* Blocks i and j of one export agree on everything an adjusted end may
\* depend on: own start and end before post-processing and the successor's
\* start (or the absence of a successor).
SameTimingInputs(i, j) ==
  /\ composedBlocks[i].startTime = composedBlocks[j].startTime
  /\ composedBlocks[i].endTime = composedBlocks[j].endTime
  /\ (i = Len(composedBlocks)) = (j = Len(composedBlocks))
  /\ i < Len(composedBlocks) /\ j < Len(composedBlocks) =>
       composedBlocks[i + 1].startTime = composedBlocks[j + 1].startTime

\* C8: post-processing keeps the number, the text and the start time of the
\* blocks; it changes end times only, and two blocks with the same start, end
\* and successor start get the same end.
C8_StartTimesKept ==
  Exported =>
    /\ Len(finalSrtBlocks) = Len(composedBlocks)
    /\ \A i \in BlockIndices :
         /\ finalSrtBlocks[i].startTime = composedBlocks[i].startTime
         /\ finalSrtBlocks[i].text = composedBlocks[i].text
    /\ \A i, j \in BlockIndices :
         SameTimingInputs(i, j) =>
           finalSrtBlocks[i].endTime = finalSrtBlocks[j].endTime

\* An export in which post-processing changed the end of two blocks, one of
\* them by the fallback.
C8_Witness ==
  /\ Exported
  /\ \E i \in PairIndices :
       /\ GapCollides(i)
       /\ finalSrtBlocks[i].endTime # composedBlocks[i].endTime
       /\ finalSrtBlocks[i + 1].endTime # composedBlocks[i + 1].endTime

\* The line text is one sanitized word of the token list.
IsSingleWord(text, subs) == \E i \in 1..Len(subs) : text = SanitizeWord(subs[i].word)

\* Scenario 4 of the specification: one 34-character word, maxChars = 10.
Scenario4Lines == GroupWords(<<Token(longWord, <<Sec10(0), Sec10(20)>>)>>, 10)

\* C9: every line of the segmenter either fits maxChars or is one single word;
\* a 34-character word with maxChars = 10 gives one line of length 34.
C9_CharacterBudget ==
  /\ Exported =>
       \A k \in 1..Len(srtLines) :
         \/ Len(srtLines[k].text) <= maxChars
         \/ IsSingleWord(srtLines[k].text, subtitles)
  /\ Len(Scenario4Lines) = 1
  /\ Scenario4Lines[1].text = longWord
  /\ Len(Scenario4Lines[1].text) = 34

\* An export with a line that overflows maxChars next to a line of two words
\* filled to exactly maxChars.
C9_Witness ==
  /\ Exported
  /\ \E k \in 1..Len(srtLines) : Len(srtLines[k].text) > maxChars
  /\ \E k \in 1..Len(srtLines) :
       /\ Len(srtLines[k].text) = maxChars
       /\ ~IsSingleWord(srtLines[k].text, subtitles)

\* Number of words of a line (no sanitized word of the model holds a space).
WordCount(text) == 1 + Cardinality({n \in 1..Len(text) : text[n] = " "})

RECURSIVE WordsUpTo(_, _)
WordsUpTo(ls, n) == IF n = 0 THEN 0 ELSE WordsUpTo(ls, n - 1) + WordCount(ls[n].text)

\* Index of the line that holds the k-th word reaching the grouping step.
LineOf(ls, k) == CHOOSE n \in 1..Len(ls) : WordsUpTo(ls, n - 1) < k /\ k <= WordsUpTo(ls, n)

PauseThreshold == Sec10(7)

\* C10: two consecutive words separated by a pause of more than 0.7 s are on
\* different lines, and scenario 1 with maxChars = 20 gives the two lines
\* 'Hi there' (0-0.9 s) and 'friend' (2.0-2.5 s).
C10_PauseSplits ==
  /\ Exported =>
       LET ws == WordsReachingGrouping
       IN \A k \in 1..(Len(ws) - 1) :
            ws[k + 1].startTime - ws[k].endTime > PauseThreshold =>
              LineOf(srtLines, k) # LineOf(srtLines, k + 1)
  /\ (Exported /\ subtitles = Scenario1 /\ maxChars = 20) =>
       srtLines =
         << [text |-> Hi \o <<" ">> \o there,
             startTime |-> Sec10(0), endTime |-> Sec10(9)],
            [text |-> friend, startTime |-> Sec10(20), endTime |-> Sec10(25)] >>

\* String.prototype.split with a one-character separator.
RECURSIVE SplitOn(_, _)
SplitOn(str, c) ==
  IF \A n \in 1..Len(str) : str[n] # c THEN <<str>>
  ELSE LET first == CHOOSE n \in 1..Len(str) :
                      str[n] = c /\ \A m \in 1..(n - 1) : str[m] # c
       IN <<SubSeq(str, 1, first - 1)>> \o SplitOn(SubSeq(str, first + 1, Len(str)), c)

\* C11: blank tokens are dropped before segmentation: the lines hold exactly
\* the kept words, no line and no block has empty text, both lines of a
\* two-line block are non-empty, and a list of blank tokens only gives no block.
C11_NoEmptyText ==
  Exported =>
    /\ \A k \in 1..Len(srtLines) : srtLines[k].text # <<>>
    /\ WordsUpTo(srtLines, Len(srtLines)) = Len(WordsReachingGrouping)
    /\ \A i \in BlockIndices :
         LET parts == SplitOn(finalSrtBlocks[i].text, "\n")
         IN /\ Len(parts) \in {1, 2}
            /\ \A n \in 1..Len(parts) : parts[n] # <<>>
    /\ WordsReachingGrouping = <<>> =>
         /\ srtLines = <<>>
         /\ finalSrtBlocks = <<>>
         /\ content = <<>>

\* A double-mode export of a list that holds a blank token between kept words
\* and gives a two-line block.
C11_Witness ==
  /\ Exported
  /\ lines = "double"
  /\ Len(subtitles) = 3
  /\ ~KeptWord(subtitles[2])
  /\ KeptWord(subtitles[1]) /\ KeptWord(subtitles[3])
  /\ \E i \in BlockIndices : Len(SplitOn(finalSrtBlocks[i].text, "\n")) = 2

\* C12: every line starts at the start time of the first word of its text;
\* tokens dropped as empty have no influence on the timing of a line.
C12_LineStartsAtFirstWord ==
  Exported =>
    \A n \in 1..Len(srtLines) :
      srtLines[n].startTime =
        WordsReachingGrouping[WordsUpTo(srtLines, n - 1) + 1].startTime

\* C13: in single mode the blocks are the lines; in double mode lines 2k-1
\* and 2k form block k (text line1, newline, line2; start of line1; end of
\* line2 before post-processing), a trailing unpaired line is a block of its
\* own, and n lines give ceil(n/2) blocks.
C13_BlockComposition ==
  Exported =>
    LET n == Len(srtLines)
    IN /\ lines = "single" => composedBlocks = srtLines
       /\ lines = "double" =>
            /\ Len(composedBlocks) = (n + 1) \div 2
            /\ \A k \in 1..Len(composedBlocks) :
                 IF 2 * k <= n
                 THEN /\ composedBlocks[k].text =
                           srtLines[2 * k - 1].text \o <<"\n">> \o srtLines[2 * k].text
                      /\ composedBlocks[k].startTime = srtLines[2 * k - 1].startTime
                      /\ composedBlocks[k].endTime = srtLines[2 * k].endTime
                 ELSE composedBlocks[k] = srtLines[2 * k - 1]

\* A double-mode export of three lines: two blocks, lines 1+2 and line 3 alone.
C13_Witness ==
  /\ Exported
  /\ lines = "double"
  /\ Len(srtLines) = 3
  /\ Len(composedBlocks) = 2
  /\ composedBlocks[2] = srtLines[3]

\* The lines of the file, and the file's blocks: runs of lines between empty lines.
SrtFileLines == SplitOn(content, "\n")
SrtChunks == SplitOn(SrtFileLines, <<>>)

\* C14: the sequence numbers written in the SRT output are 1, 2, ..., n in
\* emission order, n being the number of blocks.
C14_SequenceNumbers ==
  Exported =>
    IF finalSrtBlocks = <<>> THEN content = <<>>
    ELSE /\ Len(SrtChunks) = Len(finalSrtBlocks)
         /\ \A k \in 1..Len(SrtChunks) :
              /\ SrtChunks[k] # <<>>
              /\ SrtChunks[k][1] = Decimal(k)

\* An export of three blocks, numbered 1, 2, 3.
C14_Witness ==
  /\ Exported
  /\ Len(finalSrtBlocks) = 3
  /\ Len(SrtChunks) = 3
  /\ SrtChunks[3][1] = <<"3">>

\* Reading a printed HH:MM:SS,mmm back as a number of milliseconds.
DigitValue(ch) == CHOOSE d \in 0..9 : Digits[d + 1] = ch
Field2(s, n) == 10 * DigitValue(s[n]) + DigitValue(s[n + 1])
PrintedMs(s) ==
  Field2(s, 1) * 3600000 + Field2(s, 4) * 60000 + Field2(s, 7) * 1000
    + 100 * DigitValue(s[10]) + Field2(s, 11)
PrintedStart(chunk) == PrintedMs(SubSeq(chunk[2], 1, 12))
PrintedEnd(chunk) == PrintedMs(SubSeq(chunk[2], 18, 29))

\* C16: in the exported SRT text the printed end timestamp of every block
\* denotes a strictly later time than its printed start timestamp.
C16_PrintedDurationPositive ==
  (Exported /\ finalSrtBlocks # <<>>) =>
    \A k \in 1..Len(SrtChunks) : PrintedEnd(SrtChunks[k]) > PrintedStart(SrtChunks[k])

\* The call of formatTimestamp has returned or thrown.
Called == tsResult # NotCalled
WholeMillis(seconds) ==
  /\ ~seconds.nan /\ ~seconds.inf
  /\ seconds.ticks % TicksPerMilli = 0
MillisOf(seconds) == seconds.ticks \div TicksPerMilli
MillisPerDay == 24 * 3600000

\* C17: in 'srt' mode a time t in whole milliseconds, 0 <= t < 24 h, is
\* written as HH:MM:SS,mmm whose fields decode back to exactly t.
C17_FieldsDecodeToTime ==
  (/\ Called
   /\ tsFormat = "srt"
   /\ WholeMillis(tsSeconds)
   /\ 0 <= MillisOf(tsSeconds)
   /\ MillisOf(tsSeconds) < MillisPerDay) =>
    /\ tsResult # RangeError
    /\ PrintedMs(tsResult) = MillisOf(tsSeconds)

ZeroSrt == <<"0", "0", ":", "0", "0", ":", "0", "0", ",", "0", "0", "0">>
ZeroDefault == <<"0", "0", ":", "0", "0", ":", "0", "0">>
Malformed(seconds) == seconds.nan \/ (~seconds.inf /\ seconds.ticks < 0)

\* C18: a negative or NaN time is formatted exactly like zero (00:00:00,000
\* in 'srt' mode, 00:00:00 otherwise) and the call does not throw; in 'srt'
\* mode every timestamp written has a comma before the fraction and no period.
C18_ClampAndComma ==
  Called =>
    /\ Malformed(tsSeconds) =>
         tsResult = IF tsFormat = "srt" THEN ZeroSrt ELSE ZeroDefault
    /\ (tsFormat = "srt" /\ tsResult # RangeError) =>
         /\ Len(tsResult) = 12
         /\ tsResult[9] = ","
         /\ \A n \in 1..Len(tsResult) : tsResult[n] # "."

\* formatTimestamp(NaN, 'srt') has returned 00:00:00,000.
C18_Witness ==
  /\ Called
  /\ tsSeconds.nan
  /\ tsFormat = "srt"
  /\ tsResult = ZeroSrt

\* C15: in the SRT output consecutive blocks are separated by exactly one
\* blank line and no block's text holds a blank line or an extra line break,
\* also for words that hold CR/LF characters: the file splits on blank lines
\* into one chunk per block, each chunk being the number line, the time line
\* and one text line (single mode) or one or two text lines (double mode).
C15_OneBlankLineBetweenBlocks ==
  (Exported /\ finalSrtBlocks # <<>>) =>
    /\ \A n \in 1..Len(content) : content[n] # "\r"
    /\ Len(SrtChunks) = Len(finalSrtBlocks)
    /\ Cardinality({n \in 1..Len(SrtFileLines) : SrtFileLines[n] = <<>>})
         = Len(finalSrtBlocks) - 1
    /\ \A k \in 1..Len(SrtChunks) :
         /\ Len(SrtChunks[k]) \in (IF lines = "single" THEN {3} ELSE {3, 4})
         /\ SubSeq(SrtChunks[k], 3, Len(SrtChunks[k]))
              = SplitOn(finalSrtBlocks[k].text, "\n")

\* A double-mode export of two blocks, the first of two text lines, from a
\* list that holds the word with CR/LF characters.
C15_Witness ==
  /\ Exported
  /\ lines = "double"
  /\ \E k \in 1..Len(subtitles) : subtitles[k].word = lineBreakWord
  /\ Len(finalSrtBlocks) = 2
  /\ Len(SrtChunks) = 2
  /\ Len(SrtChunks[1]) = 4

\* C19: a download in any format leaves the editor's list as it is, and an
\* SRT download that follows an earlier SRT download of the same list and
\* settings, with downloads in other formats in between, makes the same file.
C19_ExportsArePure ==
  [][exportFormat' # "none" =>
       /\ subtitles' = subtitles
       /\ (exportFormat' = "srt" /\ previousSrt' # NoContent) =>
            content' = previousSrt']_vars

\* A second SRT download, made after a download in another format, of a list
\* that holds a word the pipeline sanitizes.
C19_Witness ==
  /\ Exported
  /\ previousSrt # NoContent
  /\ content = previousSrt
  /\ finalSrtBlocks # <<>>
  /\ \E k \in 1..Len(subtitles) : subtitles[k].word = lineBreakWord

\* Reading a JSON object: the set of its keys and the value of a key.
ObjectKeys(o) == {o.v[n][1] : n \in 1..Len(o.v)}
Field(o, key) == o.v[CHOOSE n \in 1..Len(o.v) : o.v[n][1] = key][2]
RecordsKey == <<"r", "e", "c", "o", "r", "d", "s">>

\* The array lists one entry per token, in token order, with the fields
\* start-time, end-time and word of that token.
ListsTokens(arr) ==
  /\ arr.t = "array"
  /\ Len(arr.v) = Len(subtitles)
  /\ \A k \in 1..Len(arr.v) :
       /\ arr.v[k].t = "object"
       /\ ObjectKeys(arr.v[k]) = {StartTimeKey, EndTimeKey, WordKey}
       /\ Field(arr.v[k], StartTimeKey) = JsonNumber(subtitles[k].startTime)
       /\ Field(arr.v[k], EndTimeKey) = JsonNumber(subtitles[k].endTime)
       /\ Field(arr.v[k], WordKey) = JsonString(subtitles[k].word)

C21_TxtSingleLine ==
  exportFormat = "txt" =>
    /\ content = Join([k \in 1..Len(subtitles) |-> subtitles[k].word], <<" ">>)
    /\ \A n \in 1..Len(content) : content[n] \notin {"\n", "\r"}

Max(a, b) == IF a >= b THEN a ELSE b
Min(a, b) == IF a <= b THEN a ELSE b

\* The three ends of block i as the claim computes them from the blocks
\* before post-processing.
E1(i) == Max(composedBlocks[i].endTime, composedBlocks[i].startTime + minDuration)
RequiredEnd(i) == composedBlocks[i + 1].startTime - gapInSeconds
E2(i) == IF i < Len(composedBlocks) THEN Min(E1(i), RequiredEnd(i)) ELSE E1(i)

\* C24: the final end of every block is e2 = min(max(end, start +
\* minDuration), next.start - gap) (without the min for the last block),
\* except that a block with a successor and e2 <= start ends at start + 50 ms;
\* starts and texts are kept.
C24_PostProcessOrder ==
  Exported =>
    /\ Len(finalSrtBlocks) = Len(composedBlocks)
    /\ \A i \in BlockIndices :
         /\ finalSrtBlocks[i].startTime = composedBlocks[i].startTime
         /\ finalSrtBlocks[i].text = composedBlocks[i].text
         /\ finalSrtBlocks[i].endTime =
              IF i < Len(composedBlocks) /\ E2(i) <= composedBlocks[i].startTime
              THEN composedBlocks[i].startTime + FallbackTicks
              ELSE E2(i)

\* A block whose minimum-duration extension passes next.start - gap and is
\* clamped to it without the fallback, followed in the same export by a block
\* that gets the fallback.
C24_Witness ==
  /\ Exported
  /\ \E i \in PairIndices :
       /\ E1(i) > composedBlocks[i].endTime
       /\ E1(i) > RequiredEnd(i)
       /\ RequiredEnd(i) > composedBlocks[i].startTime
       /\ finalSrtBlocks[i].endTime = RequiredEnd(i)
  /\ \E i \in PairIndices :
       /\ E2(i) <= composedBlocks[i].startTime
       /\ finalSrtBlocks[i].endTime = composedBlocks[i].startTime + FallbackTicks

\* C25: a line closed because the next word would exceed maxChars ends at
\* the end time of the last word of its text, also when a dropped empty token
\* lies between that word and the word that starts the next line.
C25_ClosedLineEndsAtLastWord ==
  Exported =>
    \A n \in 1..(Len(srtLines) - 1) :
      srtLines[n].endTime = WordsReachingGrouping[WordsUpTo(srtLines, n)].endTime

\* All non-empty sanitized words, in input order.
SanitizedWords ==
  [k \in 1..Len(WordsReachingGrouping) |-> SanitizeWord(WordsReachingGrouping[k].word)]

\* The words of line n: its share of SanitizedWords.
LineWords(n) ==
  SubSeq(SanitizedWords, WordsUpTo(srtLines, n - 1) + 1, WordsUpTo(srtLines, n))

\* C27: the line texts joined by single spaces are the non-empty sanitized
\* words joined by single spaces, and every line is a run of whole
\* consecutive words: no word is lost, duplicated, split or reordered.
C27_WordsPreserved ==
  Exported =>
    /\ Join([n \in 1..Len(srtLines) |-> srtLines[n].text], <<" ">>)
         = Join(SanitizedWords, <<" ">>)
    /\ WordsUpTo(srtLines, Len(srtLines)) = Len(SanitizedWords)
    /\ \A n \in 1..Len(srtLines) : srtLines[n].text = Join(LineWords(n), <<" ">>)

\* Three lines made of three different words, none of which fits the line
\* before it.
C27_Witness ==
  /\ Exported
  /\ Len(srtLines) = 3
  /\ Len(SanitizedWords) = 3
  /\ Cardinality({SanitizedWords[k] : k \in 1..3}) = 3

AcceptedTypes == {"audio/mpeg", "audio/wav", "audio/x-wav"}
IsUnsupportedMessage(e) == Len(e) = 3 /\ e[1] = "Unsupported file type: "

\* C23: wherever a file can be selected, handleFileSelect with a type other
\* than audio/mpeg, audio/wav and audio/x-wav sets an error message and keeps
\* audioFile and appState, and with an accepted type it stores the file and
\* clears the error; and every step that puts up the unsupported-type message
\* keeps audioFile and appState.
C23_OnlyMp3AndWav ==
  /\ [](UploadRendered =>
          \A file \in FileTypes :
            LET after == handleFileSelect(file)
            IN IF file \in AcceptedTypes
               THEN after.audioFile = file /\ after.error = NoError
               ELSE /\ after.error # NoError
                    /\ after.audioFile = audioFile
                    /\ after.appState = appState)
  /\ [][(IsUnsupportedMessage(error') /\ error' # error) =>
          (audioFile' = audioFile /\ appState' = appState)]_vars

\* A WAV file was selected and a video file after it: the message is up and
\* the WAV file is still selected.
C23_Witness ==
  /\ error = UnsupportedFileType("video/mp4")
  /\ audioFile = "audio/wav"
  /\ appState = "idle"

\* C26: handleGenerate without a file sets an error and keeps appState; with
\* a file and without API key it sets an error and moves to 'error'; in both
\* cases no call is started, and no step enters 'loading' or starts a
\* transcribeAudio call without a file and an API key.
C26_GeneratePreconditions ==
  /\ [](UploadRendered =>
          LET after == handleGenerate
          IN /\ audioFile = NoFile =>
                  /\ after.error # NoError
                  /\ after.appState = appState
                  /\ after.transcription = transcription
             /\ (audioFile # NoFile /\ ~apiKey) =>
                  /\ after.error # NoError
                  /\ after.appState = "error"
                  /\ after.transcription = transcription)
  /\ [][(\/ (appState' = "loading" /\ appState # "loading")
          \/ (transcription'.status = "pending" /\ transcription.status # "pending")) =>
          (audioFile # NoFile /\ apiKey)]_vars

\* Generate was clicked with a file selected and no API key.
C26_Witness ==
  /\ ~apiKey
  /\ audioFile # NoFile
  /\ appState = "error"
  /\ error = MissingApiKey
  /\ transcription = NoCall

\* C28: 'loading' is the state of a pending call and offers no Generate;
\* 'editing' shows the result of a resolved call; a step out of 'loading'
\* goes to 'editing' with subtitles set to the result of the resolved call,
\* or to 'error' with the failure message set and subtitles kept; and
\* 'editing' is entered from 'loading' only.
C28_AppStateMachine ==
  /\ [](/\ (appState = "loading") <=> (transcription.status = "pending")
        /\ (appState = "loading") => ~ENABLED GenerateClicked
        /\ appState = "editing" =>
             /\ transcription.status = "resolved"
             /\ subtitles = transcription.value)
  /\ [][LET left == appState = "loading" /\ appState' # "loading"
             entered == appState' = "editing" /\ appState # "editing"
         IN /\ left =>
                 \/ /\ appState' = "editing"
                    /\ transcription'.status = "resolved"
                    /\ subtitles' = transcription'.value
                    /\ error' = NoError
                 \/ /\ appState' = "error"
                    /\ transcription'.status = "rejected"
                    /\ error' = TranscriptionFailed(transcription'.value)
                    /\ subtitles' = subtitles
            /\ entered => appState = "loading"]_vars

\* The transcription of the selected file resolved with two words, which the
\* editor shows.
C28_Witness ==
  /\ appState = "editing"
  /\ transcription.status = "resolved"
  /\ Len(subtitles) = 2
  /\ subtitles[1] # subtitles[2]

\* The failures of Romanize the claim lists, for the list submitted.
RomanizeFails(response, submitted) ==
  \/ response.kind = "error"
  \/ response.kind # "array"
  \/ Len(response.items) # Len(submitted)
  \/ \E k \in 1..Len(response.items) :
       \E key \in {"word", "startTime", "endTime"} : key \notin response.items[k].keys

\* C29: while a Romanize call is pending, every response that is a failure
\* (rejected call, no array, other length, item without word, startTime or
\* endTime) leaves the list unchanged and hasBeenRomanized false, sets an
\* error message and returns isTranslating to false, and every other response
\* replaces the list by one of the same length and sets hasBeenRomanized;
\* after a failure Romanize can be clicked again, after a success never.
C29_RomanizeFailureKeepsList ==
  /\ [](/\ transliteration.status = "pending" =>
             \A response \in TransliterateResponses(transliteration.value) :
               LET after == handleRomanizeSettled(
                              transliterateText(transliteration.value, response))
               IN IF RomanizeFails(response, transliteration.value)
                  THEN /\ after.subtitles = subtitles
                       /\ after.hasBeenRomanized = FALSE
                       /\ after.transliterationError # NoError
                       /\ after.isTranslating = FALSE
                  ELSE /\ Len(after.subtitles) = Len(transliteration.value)
                       /\ after.subtitles = AsSubtitleWords(response.items)
                       /\ after.hasBeenRomanized = TRUE
                       /\ after.isTranslating = FALSE
        /\ transliteration.status = "rejected" =>
             (~isTranslating /\ ~hasBeenRomanized /\ ENABLED RomanizeClicked)
        /\ hasBeenRomanized => ~ENABLED RomanizeClicked
        /\ isTranslating => ~ENABLED RomanizeClicked)
  /\ [][/\ hasBeenRomanized => hasBeenRomanized'
        /\ (transliteration.status = "pending" /\ transliteration'.status = "rejected") =>
             /\ subtitles' = subtitles
             /\ hasBeenRomanized' = FALSE
             /\ transliterationError' # NoError
             /\ isTranslating' = FALSE]_vars

\* A Romanize call on two words failed on the format of the response: the
\* list still has its two words, the error is up and Romanize can be clicked
\* again.
C29_Witness ==
  /\ transliteration.status = "rejected"
  /\ transliteration.value = InvalidTransliterationFormat
  /\ transliterationError = FailedToRomanize(InvalidTransliterationFormat)
  /\ Len(subtitles) = 2
  /\ ~isTranslating
  /\ ~hasBeenRomanized

\* The 0-based indices, after lastReplacedIndex, of the tokens whose word
\* contains the find term under the case setting.
LaterMatches ==
  { i \in (lastReplacedIndex + 1)..(Len(subtitles) - 1) :
      \E pos \in 1..Len(subtitles[i + 1].word) :
        MatchesAt(subtitles[i + 1].word, findTerm, pos, findCaseSensitive) }

\* C30: a step that keeps the find term and the case setting and touches
\* the token list or lastReplacedIndex is a Replace that returned 1, moved
\* lastReplacedIndex forward to the first matching token after it, rewrote
\* that token's word by the replacement (to the same word when the
\* replacement reproduces the match) and left every timing and every
\* other token alone; the successful Replaces since the term or the case
\* setting last changed never outnumber the tokens, and once there is no
\* matching token after lastReplacedIndex, which is the case after as many
\* successful Replaces as there are tokens, Replace returns 0 and changes
\* nothing, whatever the replacement text.
C30_ReplaceAdvances ==
  /\ [](/\ lastReplacedIndex \in -1..(Len(subtitles) - 1)
        /\ replaceCount <= lastReplacedIndex + 1
        /\ replaceCount <= Len(subtitles)
        /\ replaceCount = Len(subtitles) => LaterMatches = {}
        /\ (findTerm = <<>> \/ LaterMatches = {}) =>
             /\ onReplace.count = 0
             /\ onReplace.subtitles = subtitles
             /\ onReplace.lastReplacedIndex = lastReplacedIndex
        /\ (findTerm # <<>> /\ LaterMatches # {}) => onReplace.count = 1)
  /\ [][(/\ findTerm' = findTerm
         /\ findCaseSensitive' = findCaseSensitive
         /\ (subtitles' # subtitles \/ lastReplacedIndex' # lastReplacedIndex)) =>
          /\ replaceResult' = Returned(1)
          /\ replaceCount' = replaceCount + 1
          /\ lastReplacedIndex' > lastReplacedIndex
          /\ lastReplacedIndex' \in LaterMatches
          /\ \A i \in LaterMatches : lastReplacedIndex' <= i
          /\ Len(subtitles') = Len(subtitles)
          /\ \A k \in 1..Len(subtitles) :
               /\ subtitles'[k].startTime = subtitles[k].startTime
               /\ subtitles'[k].endTime = subtitles[k].endTime
               /\ k # lastReplacedIndex' + 1 => subtitles'[k] = subtitles[k]
          /\ subtitles'[lastReplacedIndex' + 1].word =
               RegexReplace(subtitles[lastReplacedIndex' + 1].word, findTerm,
                            replaceTerm, findCaseSensitive)]_vars

\* Three tokens, each replaced once by a text that contains the find term,
\* and a further Replace that returned 0.
C30_Witness ==
  /\ Len(subtitles) = 3
  /\ findTerm = <<"a">>
  /\ replaceTerm = <<"a", "a">>
  /\ replaceCount = 3
  /\ lastReplacedIndex = 2
  /\ Len(replaceResult) = 2
  /\ replaceResult[2] = 0
  /\ \A k \in 1..3 : Includes(ToLowerCase(subtitles[k].word), <<"a", "a">>)

\* A block of a file is imported when it has a time line of the form
\* "start --> end" with two timestamps and at least one word of text.
Imported(b) ==
  /\ b.timing \in {"comma", "dot"}
  /\ \E n \in 1..Len(b.text) : b.text[n] # <<>>

RECURSIVE WordsOf(_)
WordsOf(text) == IF text = <<>> THEN <<>> ELSE Head(text) \o WordsOf(Tail(text))

\* The tokens are those of the block b by even division of its span.
EvenDivision(tokens, b) ==
  LET words == WordsOf(b.text)
      N == Len(words)
      S == b.span[1]
      E == b.span[2]
  IN /\ Len(tokens) = N
     /\ \A i \in 0..(N - 1) :
          /\ tokens[i + 1].word = words[i + 1]
          /\ N * (tokens[i + 1].startTime - S) = i * (E - S)
          /\ N * (tokens[i + 1].endTime - S) = (i + 1) * (E - S)
     /\ tokens[1].startTime = S
     /\ tokens[N].endTime = E
     /\ \A i \in 1..(N - 1) : tokens[i].endTime = tokens[i + 1].startTime

RECURSIVE TokensOfBlocks(_, _)
TokensOfBlocks(tokens, blocks) ==
  IF blocks = <<>> THEN tokens = <<>>
  ELSE LET N == IF Imported(Head(blocks)) THEN Len(WordsOf(Head(blocks).text)) ELSE 0
       IN /\ Len(tokens) >= N
          /\ N > 0 => EvenDivision(SubSeq(tokens, 1, N), Head(blocks))
          /\ TokensOfBlocks(SubSeq(tokens, N + 1, Len(tokens)), Tail(blocks))

\* C22: the words parseSRT resolves for a file are, block after block, the
\* N words of each imported block in order, word i (0-based) from
\* S + i*(E-S)/N to S + (i+1)*(E-S)/N, contiguous, from S to E; a block
\* without a time line, with a time line that is not two timestamps around
\* " --> ", or without text adds nothing.
C22_EvenTimeDivision ==
  parsedWords.status = "resolved" =>
    \A blocks \in SrtBlockSeqs, layout \in SrtLayouts :
      srtFile = FileText(blocks, layout) => TokensOfBlocks(parsedWords.value, blocks)

\* A CRLF file of a tagged block of three words on two lines, from 2 s to
\* 3.5 s, followed by a block without a time line: three tokens of 0.5 s.
C22_Witness ==
  /\ parsedWords.status = "resolved"
  /\ Includes(srtFile, <<"\r", "\n", "\r", "\n", "1", "\r", "\n", "H", "i", " ">>)
  /\ Len(parsedWords.value) = 3
  /\ parsedWords.value[1] = Token(Hi, <<Sec10(20), Sec10(25)>>)
  /\ parsedWords.value[2] = Token(there, <<Sec10(25), Sec10(30)>>)
  /\ parsedWords.value[3] = Token(friend, <<Sec10(30), Sec10(35)>>)

====
